---- MODULE Spec2Model ----
(***************************************************************************)
(* Verification model of the authentication template: the fixed-window     *)
(* rate limiter (lib/rate-limiter), the in-memory storage adapter          *)
(* (lib/db/adapters/memory) with the BaseAdapter helpers, and the route    *)
(* handlers register, verify-email (POST and GET), forgot-password and     *)
(* reset-password.                                                         *)
(*                                                                         *)
(* JavaScript runs every handler to completion between two awaits, so a    *)
(* handler is cut into one step per await that is followed by a read or a  *)
(* write of shared state; a synchronous function is one atomic step.       *)
(* A string is a sequence of atoms (characters or words); times are in ms. *)
(***************************************************************************)
EXTENDS Integers, Sequences, FiniteSets, TLC

VARIABLES
    now,                      \* Date.now(), the wall clock in ms
    ticks,                    \* number of clock advances so far (bounded)
    rateLimitStore,           \* Map<string, RateLimitEntry>
    lastCleanupTime,          \* let lastCleanupTime
    policy,                   \* the RateLimitConfig each endpoint is called with
    rlWindow,                 \* history: per key, the window being observed
    rlLast,                   \* history: the last checkRateLimit call and result
    unsweptStore,             \* history: the store of a limiter that never deletes
    users,                    \* Map<string, User>
    emailIndex,               \* Map<string, string>  email -> userId
    verificationTokenIndex,   \* Map<string, string>  token -> userId
    passwordResetTokenIndex,  \* Map<string, string>  token -> userId
    nextUserId,               \* uuid(): the next fresh user id
    nextToken,                \* randomUUID(): the next fresh token
    reqs,                     \* the request each slot is serving
    lastDone,                 \* history: the request answered last, with its response
    started,                  \* number of requests received so far (bounded)
    issued,                   \* history: token -> the user and purpose it was issued for
    consumed,                 \* history: the tokens a confirmation succeeded with
    credentials,              \* history: userId -> the email and password last accepted
    adapterLast,              \* history: the last direct createUser call
    secretValidated,          \* let secretValidated of the middleware
    gateLast,                 \* history: the last middleware call and its decision
    resolvedSalt,             \* let resolvedSalt of lib/ip-hash
    env,                      \* process.env: IP_HASH_SALT and NODE_ENV
    hashLast,                 \* history: the last hashIP call and its outcome
    hashSeen                  \* history: ip -> the hashes hashIP returned for it

rlVars == <<rateLimitStore, lastCleanupTime, policy, rlWindow, rlLast, unsweptStore>>
dbVars == <<users, emailIndex, verificationTokenIndex, passwordResetTokenIndex,
            nextUserId, nextToken>>
reqVars == <<reqs, lastDone, started, issued, consumed, credentials>>
mwVars == <<secretValidated, gateLast>>
saltVars == <<resolvedSalt, env, hashLast, hashSeen>>
auxVars == <<adapterLast, mwVars, saltVars>>
vars == <<now, ticks, rlVars, dbVars, reqVars, auxVars>>

(***************************************************************************)
(* Bounds of the model.                                                    *)
(***************************************************************************)
MaxTicks == 3
MaxLimit == 2
MaxUsers == 2
MaxTokens == 3
AdapterMaxTokens == 2
AuthMaxTicks == 1
MaxInFlight == 2
MaxReqs == 3
GateMaxReqs == 7
MaxPathLen == 2
MaxHops == 3

(***************************************************************************)
(* Generic helpers on finite maps (JavaScript Map).                        *)
(***************************************************************************)
MapHas(m, k) == k \in DOMAIN m

MapSet(m, k, v) == [x \in DOMAIN m \cup {k} |-> IF x = k THEN v ELSE m[x]]

MapDelete(m, k) == [x \in DOMAIN m \ {k} |-> m[x]]

EmptyMap == [x \in {} |-> 0]

(***************************************************************************)
(* Rate limiter.                                                           *)
(***************************************************************************)
CLEANUP_INTERVAL_MS == 5 * 60 * 1000

\* one bucket per endpoint, shared by every client
RateLimitKeyShared(identifier, endpoint) == endpoint

\* const key = `${identifier}:${endpoint}`
RateLimitKey(identifier, endpoint) == identifier \o <<":">> \o endpoint

\* a sweep on every call
CleanupSkippedNever(t, last) == FALSE

\* `now - lastCleanupTime < CLEANUP_INTERVAL_MS` makes cleanupExpiredEntries return
CleanupSkipped(t, last) == t - last < CLEANUP_INTERVAL_MS

\* a window that never ends
EntryExpiredNever(entry, t) == FALSE

\* the test under which a stored entry counts as expired
EntryExpired(entry, t) == entry.resetAt < t

\* a sweep that deletes every entry, expired or not
SweepAll(store, t) == EmptyMap

\* the loop of cleanupExpiredEntries: delete every expired entry
SweepExpired(store, t) ==
    [k \in {x \in DOMAIN store : ~EntryExpired(store[x], t)} |-> store[k]]

\* cleanupExpiredEntries(): the store and lastCleanupTime it leaves
CleanupExpiredEntries(store, last, t) ==
    IF CleanupSkipped(t, last)
    THEN [store |-> store, last |-> last]
    ELSE [store |-> SweepExpired(store, t), last |-> t]

\* a lost update: the count read before another request's increment is written back
IncrementCountLost(entry) == entry

\* a sliding window: every allowed call pushes the end of the window
IncrementCountSlides(entry) == [entry EXCEPT !.count = @ + 1, !.resetAt = @ + 1]

\* entry.count++
IncrementCount(entry) == [entry EXCEPT !.count = @ + 1]

\* an off-by-one limit test
LimitReachedLate(entry, config) == entry.count > config.limit

\* entry.count >= config.limit
LimitReached(entry, config) == entry.count >= config.limit

\* checkRateLimit(identifier, endpoint, config) called at time t
CheckRateLimit(store0, last0, t, identifier, endpoint, config) ==
    LET c     == CleanupExpiredEntries(store0, last0, t)
        key   == RateLimitKey(identifier, endpoint)
        entry == c.store[key]
    IN  IF ~MapHas(c.store, key) \/ EntryExpired(entry, t)
        THEN LET resetAt == t + config.windowSeconds * 1000
             IN  [store  |-> MapSet(c.store, key, [count |-> 1, resetAt |-> resetAt]),
                  last   |-> c.last,
                  result |-> [allowed |-> TRUE, remaining |-> config.limit - 1,
                              resetAt |-> resetAt]]
        ELSE IF LimitReached(entry, config)
        THEN [store  |-> c.store,
              last   |-> c.last,
              result |-> [allowed |-> FALSE, remaining |-> 0,
                          resetAt |-> entry.resetAt]]
        ELSE LET e2 == IncrementCount(entry)
             IN  [store  |-> MapSet(c.store, key, e2),
                  last   |-> c.last,
                  result |-> [allowed |-> TRUE,
                              remaining |-> config.limit - e2.count,
                              resetAt |-> e2.resetAt]]

\* checkRateLimit of a limiter whose cleanupExpiredEntries never deletes: the
\* sweep is skipped (the last sweep counts as made at the time of the call)
NeverSwept(store0, t, identifier, endpoint, config) ==
    CheckRateLimit(store0, t, t, identifier, endpoint, config)

(***************************************************************************)
(* Values.  A token is a natural number, NoToken stands for null; a date   *)
(* is a time in ms, NoDate stands for null.  A user id is a natural number *)
(* (uuid() never repeats).  The fields name, createdAt and updatedAt of a  *)
(* User are written but never read by the code modelled here and are left  *)
(* out of the record.                                                      *)
(***************************************************************************)
NoToken == 0

\* a URL or a search parameter that is not there; a path is the sequence of
\* its segments, "/" the empty one
NoPath == <<"undefined">>

\* no middleware call yet
NoGate == [pathname |-> NoPath, hops |-> 0, isAuthenticated |-> FALSE, secret |-> FALSE,
           production |-> FALSE, decision |-> "none", location |-> NoPath,
           callbackUrl |-> NoPath]
NoDate == -1

\* resolvedSalt = null
NoSalt == <<"null">>

\* no hashIP call yet
NoHash == [ip |-> <<>>, before |-> NoSalt,
           env |-> [IP_HASH_SALT |-> <<"undefined">>, NODE_ENV |-> "development"],
           threw |-> FALSE, warned |-> FALSE, hash |-> <<>>]

\* String.prototype.toLowerCase on the alphabet of the model
LowerChar(c) == CASE c = "A" -> "a" [] c = "B" -> "b" [] OTHER -> c

\* a lower-casing that leaves every letter as it is
ToLowerCaseNoop(s) == s

ToLowerCase(s) == [i \in 1..Len(s) |-> LowerChar(s[i])]

\* bcrypt hash(password, 12) and compare(password, hash)
Hash(password) == <<"$">> \o password

Compare(password, passwordHash) == passwordHash = Hash(password)

\* the four Maps of the memory adapter as one value
DB == [users |-> users, emailIndex |-> emailIndex,
       verificationTokenIndex |-> verificationTokenIndex,
       passwordResetTokenIndex |-> passwordResetTokenIndex]

\* forgetting to delete the old token from the index
DeleteOldForgotten(index, old) == index

\* index.delete(old) when old is truthy
DeleteOld(index, old) == IF old # NoToken THEN MapDelete(index, old) ELSE index

\* MemoryAdapter.findUserByEmail: the user id, or 0 for null
FindUserByEmail(db, email) ==
    LET normalizedEmail == ToLowerCase(email)
    IN  IF ~MapHas(db.emailIndex, normalizedEmail) THEN 0
        ELSE IF ~MapHas(db.users, db.emailIndex[normalizedEmail]) THEN 0
        ELSE db.emailIndex[normalizedEmail]

\* MemoryAdapter.emailExists
EmailExists(db, email) == MapHas(db.emailIndex, ToLowerCase(email))

\* MemoryAdapter.createUser with the fresh id `id`
CreateUser(db, id, data) ==
    LET normalizedEmail == ToLowerCase(data.email)
        user == [id |-> id,
                 email |-> normalizedEmail,
                 passwordHash |-> data.passwordHash,
                 emailVerified |-> NoDate,
                 emailVerificationToken |-> data.emailVerificationToken,
                 emailVerificationTokenExpiresAt |-> data.emailVerificationTokenExpiresAt,
                 passwordResetToken |-> NoToken,
                 passwordResetTokenExpiresAt |-> NoDate]
    IN  [threw |-> FALSE,
         db |-> [users |-> MapSet(db.users, id, user),
                 emailIndex |-> MapSet(db.emailIndex, normalizedEmail, id),
                 verificationTokenIndex |->
                     IF data.emailVerificationToken # NoToken
                     THEN MapSet(db.verificationTokenIndex, data.emailVerificationToken, id)
                     ELSE db.verificationTokenIndex,
                 passwordResetTokenIndex |-> db.passwordResetTokenIndex]]

\* `data.f !== undefined`: the UpdateUserInput carries the field f
Given(data, f) == f \in data.keys

\* the index after the "Handle ... token change" block of updateUser
UpdateTokenIndex(index, given, old, new, id) ==
    IF given
    THEN LET d == DeleteOld(index, old)
         IN  IF new # NoToken THEN MapSet(d, new, id) ELSE d
    ELSE index

\* the emailIndex after the "Handle email change" block of updateUser
UpdateEmailIndex(index, user, data, id) ==
    IF Given(data, "email") /\ data.email # <<>> /\ data.email # user.email
    THEN MapSet(MapDelete(index, user.email), ToLowerCase(data.email), id)
    ELSE index

\* { ...data } without ...user: a field the caller left out is reset
MergeUserReplace(user, data) ==
    [id |-> user.id,
     email |-> IF Given(data, "email") /\ data.email # <<>>
               THEN ToLowerCase(data.email) ELSE user.email,
     passwordHash |-> data.passwordHash,
     emailVerified |-> data.emailVerified,
     emailVerificationToken |-> data.emailVerificationToken,
     emailVerificationTokenExpiresAt |-> data.emailVerificationTokenExpiresAt,
     passwordResetToken |-> data.passwordResetToken,
     passwordResetTokenExpiresAt |-> data.passwordResetTokenExpiresAt]

\* { ...user, ...data, email: data.email ? data.email.toLowerCase() : user.email }
MergeUser(user, data) ==
    [id |-> user.id,
     email |-> IF Given(data, "email") /\ data.email # <<>>
               THEN ToLowerCase(data.email) ELSE user.email,
     passwordHash |-> IF Given(data, "passwordHash")
                      THEN data.passwordHash ELSE user.passwordHash,
     emailVerified |-> IF Given(data, "emailVerified")
                       THEN data.emailVerified ELSE user.emailVerified,
     emailVerificationToken |->
         IF Given(data, "emailVerificationToken")
         THEN data.emailVerificationToken ELSE user.emailVerificationToken,
     emailVerificationTokenExpiresAt |->
         IF Given(data, "emailVerificationTokenExpiresAt")
         THEN data.emailVerificationTokenExpiresAt
         ELSE user.emailVerificationTokenExpiresAt,
     passwordResetToken |->
         IF Given(data, "passwordResetToken")
         THEN data.passwordResetToken ELSE user.passwordResetToken,
     passwordResetTokenExpiresAt |->
         IF Given(data, "passwordResetTokenExpiresAt")
         THEN data.passwordResetTokenExpiresAt
         ELSE user.passwordResetTokenExpiresAt]

\* MemoryAdapter.updateUser
UpdateUser(db, id, data) ==
    IF ~MapHas(db.users, id)
    THEN [threw |-> TRUE, db |-> db]
    ELSE LET user == db.users[id]
         IN  [threw |-> FALSE,
              db |-> [users |-> MapSet(db.users, id, MergeUser(user, data)),
                      emailIndex |-> UpdateEmailIndex(db.emailIndex, user, data, id),
                      verificationTokenIndex |->
                          UpdateTokenIndex(db.verificationTokenIndex,
                                           Given(data, "emailVerificationToken"),
                                           user.emailVerificationToken,
                                           data.emailVerificationToken, id),
                      passwordResetTokenIndex |->
                          UpdateTokenIndex(db.passwordResetTokenIndex,
                                           Given(data, "passwordResetToken"),
                                           user.passwordResetToken,
                                           data.passwordResetToken, id)]]

\* an UpdateUserInput with every field undefined
NoData == [keys |-> {}, email |-> <<>>, passwordHash |-> <<>>,
           emailVerified |-> NoDate,
           emailVerificationToken |-> NoToken,
           emailVerificationTokenExpiresAt |-> NoDate,
           passwordResetToken |-> NoToken,
           passwordResetTokenExpiresAt |-> NoDate]

\* setVerificationToken without the removal of the old token from the index
SetVerificationTokenKeepOld(db, userId, token, expiresAt) ==
    IF ~MapHas(db.users, userId)
    THEN [threw |-> TRUE, db |-> db]
    ELSE LET user == db.users[userId]
         IN  [threw |-> FALSE,
              db |-> [db EXCEPT
                  !.verificationTokenIndex = MapSet(@, token, userId),
                  !.users = MapSet(@, userId,
                      [user EXCEPT !.emailVerificationToken = token,
                                   !.emailVerificationTokenExpiresAt = expiresAt])]]

\* MemoryAdapter.setVerificationToken
SetVerificationToken(db, userId, token, expiresAt) ==
    IF ~MapHas(db.users, userId)
    THEN [threw |-> TRUE, db |-> db]
    ELSE LET user == db.users[userId]
         IN  [threw |-> FALSE,
              db |-> [db EXCEPT
                  !.verificationTokenIndex =
                      MapSet(DeleteOld(@, user.emailVerificationToken), token, userId),
                  !.users = MapSet(@, userId,
                      [user EXCEPT !.emailVerificationToken = token,
                                   !.emailVerificationTokenExpiresAt = expiresAt])]]

\* MemoryAdapter.getVerificationToken: TokenData, or userId 0 for null
GetVerificationToken(db, token) ==
    IF ~MapHas(db.verificationTokenIndex, token)
    THEN [userId |-> 0, expiresAt |-> NoDate]
    ELSE LET userId == db.verificationTokenIndex[token]
         IN  IF ~MapHas(db.users, userId)
                \/ db.users[userId].emailVerificationTokenExpiresAt = NoDate
             THEN [userId |-> 0, expiresAt |-> NoDate]
             ELSE [userId |-> userId,
                   expiresAt |-> db.users[userId].emailVerificationTokenExpiresAt]

\* MemoryAdapter.clearVerificationToken
ClearVerificationToken(db, userId) ==
    IF ~MapHas(db.users, userId)
    THEN [threw |-> FALSE, db |-> db]
    ELSE LET user == db.users[userId]
         IN  [threw |-> FALSE,
              db |-> [db EXCEPT
                  !.verificationTokenIndex = DeleteOld(@, user.emailVerificationToken),
                  !.users = MapSet(@, userId,
                      [user EXCEPT !.emailVerificationToken = NoToken,
                                   !.emailVerificationTokenExpiresAt = NoDate])]]

\* setPasswordResetToken without the removal of the old token from the index
SetPasswordResetTokenKeepOld(db, userId, token, expiresAt) ==
    IF ~MapHas(db.users, userId)
    THEN [threw |-> TRUE, db |-> db]
    ELSE LET user == db.users[userId]
         IN  [threw |-> FALSE,
              db |-> [db EXCEPT
                  !.passwordResetTokenIndex = MapSet(@, token, userId),
                  !.users = MapSet(@, userId,
                      [user EXCEPT !.passwordResetToken = token,
                                   !.passwordResetTokenExpiresAt = expiresAt])]]

\* MemoryAdapter.setPasswordResetToken
SetPasswordResetToken(db, userId, token, expiresAt) ==
    IF ~MapHas(db.users, userId)
    THEN [threw |-> TRUE, db |-> db]
    ELSE LET user == db.users[userId]
         IN  [threw |-> FALSE,
              db |-> [db EXCEPT
                  !.passwordResetTokenIndex =
                      MapSet(DeleteOld(@, user.passwordResetToken), token, userId),
                  !.users = MapSet(@, userId,
                      [user EXCEPT !.passwordResetToken = token,
                                   !.passwordResetTokenExpiresAt = expiresAt])]]

\* a reset lookup that reads the verification index
GetPasswordResetTokenWrongIndex(db, token) == GetVerificationToken(db, token)

\* MemoryAdapter.getPasswordResetToken: TokenData, or userId 0 for null
GetPasswordResetToken(db, token) ==
    IF ~MapHas(db.passwordResetTokenIndex, token)
    THEN [userId |-> 0, expiresAt |-> NoDate]
    ELSE LET userId == db.passwordResetTokenIndex[token]
         IN  IF ~MapHas(db.users, userId)
                \/ db.users[userId].passwordResetTokenExpiresAt = NoDate
             THEN [userId |-> 0, expiresAt |-> NoDate]
             ELSE [userId |-> userId,
                   expiresAt |-> db.users[userId].passwordResetTokenExpiresAt]

\* MemoryAdapter.clearPasswordResetToken
ClearPasswordResetToken(db, userId) ==
    IF ~MapHas(db.users, userId)
    THEN [threw |-> FALSE, db |-> db]
    ELSE LET user == db.users[userId]
         IN  [threw |-> FALSE,
              db |-> [db EXCEPT
                  !.passwordResetTokenIndex = DeleteOld(@, user.passwordResetToken),
                  !.users = MapSet(@, userId,
                      [user EXCEPT !.passwordResetToken = NoToken,
                                   !.passwordResetTokenExpiresAt = NoDate])]]

\* verifyUserEmail that marks the user verified and leaves the token in place
VerifyUserEmailKeepToken(db, userId, t) ==
    UpdateUser(db, userId,
        [NoData EXCEPT !.keys = {"emailVerified"}, !.emailVerified = t])

\* BaseAdapter.verifyUserEmail at time t
VerifyUserEmail(db, userId, t) ==
    UpdateUser(db, userId,
        [NoData EXCEPT !.keys = {"emailVerified", "emailVerificationToken",
                                 "emailVerificationTokenExpiresAt"},
                       !.emailVerified = t,
                       !.emailVerificationToken = NoToken,
                       !.emailVerificationTokenExpiresAt = NoDate])

\* updatePassword that clears the token and keeps the old hash
UpdatePasswordKeepHash(db, userId, passwordHash) ==
    UpdateUser(db, userId,
        [NoData EXCEPT !.keys = {"passwordResetToken", "passwordResetTokenExpiresAt"}])

UpdatePasswordUnverify(db, userId, passwordHash) ==
    UpdateUser(db, userId,
        [NoData EXCEPT !.keys = {"passwordHash", "passwordResetToken",
                                 "passwordResetTokenExpiresAt", "emailVerified"},
                       !.passwordHash = passwordHash,
                       !.passwordResetToken = NoToken,
                       !.passwordResetTokenExpiresAt = NoDate,
                       !.emailVerified = NoDate])

\* BaseAdapter.updatePassword
UpdatePassword(db, userId, passwordHash) ==
    UpdateUser(db, userId,
        [NoData EXCEPT !.keys = {"passwordHash", "passwordResetToken",
                                 "passwordResetTokenExpiresAt"},
                       !.passwordHash = passwordHash,
                       !.passwordResetToken = NoToken,
                       !.passwordResetTokenExpiresAt = NoDate])


(***************************************************************************)
(* Inputs.                                                                 *)
(***************************************************************************)
Emails == {<<"A", "@", "x">>, <<"a", "@", "x">>, <<"b", "@", "x">>}

Password1 == <<"A", "b", "c", "d", "e", "f", "1", "2">>

Identifiers == {<<"h1">>, <<"h2">>}

RLEndpoints == {<<"e1">>}

WindowSecondsChoices == {1, 600}

RLConfigs == [limit : 1..MaxLimit, windowSeconds : WindowSecondsChoices]

RLDeltas == {1, 1000, CLEANUP_INTERVAL_MS}

VERIFICATION_TTL_MS == 24 * 60 * 60 * 1000

RESET_TTL_MS == 60 * 60 * 1000

Slots == 1..MaxInFlight

\* a slot that serves no request
IdleReq == [kind |-> "none", pc |-> "idle", email |-> <<>>, password |-> <<>>,
            token |-> NoToken, userId |-> 0, expiresAt |-> NoDate,
            checkedAt |-> NoDate, newToken |-> NoToken,
            afterConsumed |-> FALSE, afterSuperseded |-> FALSE, wasLive |-> FALSE,
            known |-> FALSE, verified |-> FALSE, pwMatch |-> FALSE,
            afterReset |-> FALSE, wellFormed |-> FALSE, strong |-> FALSE,
            nth |-> 0, reused |-> FALSE,
            sent |-> "none", status |-> 0, code |-> ""]

(***************************************************************************)
(* Initial state: empty Maps, lastCleanupTime = Date.now() at module load. *)
(***************************************************************************)
NoCall == [op |-> "none", dup |-> FALSE, threw |-> FALSE, unchanged |-> TRUE]

NoCheck == [key |-> <<>>, identifier |-> <<>>, endpoint |-> <<>>, nth |-> 0, limit |-> 0, windowSeconds |-> 0, at |-> 0,
            prevEnd |-> NoDate, prevCalls |-> 0, swept |-> FALSE,
            result |-> [allowed |-> TRUE, remaining |-> 0, resetAt |-> 0],
            reference |-> [allowed |-> TRUE, remaining |-> 0, resetAt |-> 0]]

InitStore ==
    /\ now = 0
    /\ ticks = 0
    /\ rateLimitStore = EmptyMap
    /\ lastCleanupTime = 0
    /\ rlWindow = EmptyMap
    /\ rlLast = NoCheck
    /\ unsweptStore = EmptyMap
    /\ users = EmptyMap
    /\ emailIndex = EmptyMap
    /\ verificationTokenIndex = EmptyMap
    /\ passwordResetTokenIndex = EmptyMap
    /\ nextUserId = 1
    /\ nextToken = 1
    /\ reqs = [r \in Slots |-> IdleReq]
    /\ lastDone = IdleReq
    /\ started = 0
    /\ issued = EmptyMap
    /\ consumed = {}
    /\ credentials = EmptyMap
    /\ adapterLast = NoCall
    /\ secretValidated = FALSE
    /\ gateLast = NoGate
    /\ resolvedSalt = NoSalt
    /\ env = [IP_HASH_SALT |-> <<"undefined">>, NODE_ENV |-> "development"]
    /\ hashLast = NoHash
    /\ hashSeen = EmptyMap

\* time passes
Tick(d, max) ==
    /\ ticks < max
    /\ now' = now + d
    /\ ticks' = ticks + 1
    /\ UNCHANGED <<rlVars, dbVars, reqVars, auxVars>>

(***************************************************************************)
(* The rate limiter on its own: any sequence of checkRateLimit calls, each *)
(* endpoint called with one fixed policy, as every caller in the code does.*)
(***************************************************************************)
InitRL == InitStore /\ policy \in [RLEndpoints -> RLConfigs]

\* the observed window of a key: opened by the first call after the previous
\* window's resetAt, closed at the resetAt that call returned
ObserveWindow(win, key, t, limit, result) ==
    LET fresh == ~MapHas(win, key) \/ t > win[key].end
        old   == IF fresh THEN [end |-> result.resetAt, calls |-> 0, allowed |-> 0]
                 ELSE win[key]
    IN  [end     |-> old.end,
         limit   |-> limit,
         calls   |-> IF old.calls > MaxLimit THEN old.calls ELSE old.calls + 1,
         allowed |-> old.allowed + (IF result.allowed THEN 1 ELSE 0)]

RLCheck(identifier, endpoint) ==
    LET r   == CheckRateLimit(rateLimitStore, lastCleanupTime, now,
                              identifier, endpoint, policy[endpoint])
        key == RateLimitKey(identifier, endpoint)
        w   == ObserveWindow(rlWindow, key, now, policy[endpoint].limit, r.result)
        u   == NeverSwept(unsweptStore, now, identifier, endpoint, policy[endpoint])
    IN  /\ rateLimitStore' = r.store
        /\ lastCleanupTime' = r.last
        /\ unsweptStore' = u.store
        /\ rlWindow' = MapSet(rlWindow, key, w)
        /\ rlLast' = [key |-> key, identifier |-> identifier, endpoint |-> endpoint,
                      nth |-> w.calls, limit |-> policy[endpoint].limit,
                      windowSeconds |-> policy[endpoint].windowSeconds,
                      at |-> now,
                      prevEnd |-> IF MapHas(rlWindow, key) THEN rlWindow[key].end
                                  ELSE NoDate,
                      prevCalls |-> IF MapHas(rlWindow, key) THEN rlWindow[key].calls
                                    ELSE 0,
                      swept |-> MapHas(unsweptStore, key) /\ ~MapHas(rateLimitStore, key),
                      result |-> r.result,
                      reference |-> u.result]
        /\ UNCHANGED <<now, ticks, policy, dbVars, reqVars, auxVars>>

NextRL ==
    \/ \E d \in RLDeltas : Tick(d, MaxTicks)
    \/ \E identifier \in Identifiers, endpoint \in RLEndpoints :
           RLCheck(identifier, endpoint)

SpecRL == InitRL /\ [][NextRL]_vars

(***************************************************************************)
(* The rate limiter called by two clients on two endpoints, each endpoint  *)
(* with its own policy: a short window of one request, a long window of    *)
(* two.                                                                    *)
(***************************************************************************)
KeyEndpoints == {<<"e1">>, <<"e2">>}

InitKeys ==
    /\ InitStore
    /\ policy = [e \in KeyEndpoints |->
                     IF e = <<"e1">> THEN [limit |-> 1, windowSeconds |-> 1]
                     ELSE [limit |-> MaxLimit, windowSeconds |-> 600]]

NextKeys ==
    \/ \E d \in RLDeltas : Tick(d, AuthMaxTicks)
    \/ \E pair \in {<<<<"h1">>, <<"e1">>>>, <<<<"h2">>, <<"e1">>>>,
                     <<<<"h1">>, <<"e2">>>>} :
           RLCheck(pair[1], pair[2])

SpecKeys == InitKeys /\ [][NextKeys]_vars


(***************************************************************************)
(* The memory adapter on its own: any sequence of calls of its methods,    *)
(* with tokens and user ids that never repeat.                             *)
(***************************************************************************)
InitAdapter == InitStore /\ policy = EmptyMap

DbUnchanged(db) == db = DB

\* the adapter call `op` returned r; the history keeps the createUser calls
Returned(op, r, dup) ==
    /\ users' = r.db.users
    /\ emailIndex' = r.db.emailIndex
    /\ verificationTokenIndex' = r.db.verificationTokenIndex
    /\ passwordResetTokenIndex' = r.db.passwordResetTokenIndex
    /\ adapterLast' = IF op = "createUser"
                       THEN [op |-> op, dup |-> dup, threw |-> r.threw,
                             unchanged |-> DbUnchanged(r.db)]
                       ELSE NoCall
    /\ UNCHANGED <<now, ticks, rlVars, reqVars, mwVars, saltVars>>

AdapterCreateUser(email, withToken) ==
    /\ nextUserId <= MaxUsers
    /\ withToken => nextToken <= AdapterMaxTokens
    /\ Returned("createUser",
                CreateUser(DB, nextUserId,
                    [email |-> email, passwordHash |-> Hash(Password1),
                     emailVerificationToken |-> IF withToken THEN nextToken ELSE NoToken,
                     emailVerificationTokenExpiresAt |->
                         IF withToken THEN now + VERIFICATION_TTL_MS ELSE NoDate]),
                EmailExists(DB, email))
    /\ nextUserId' = nextUserId + 1
    /\ nextToken' = IF withToken THEN nextToken + 1 ELSE nextToken

\* the choices for one field of an UpdateUserInput
Undefined == "undefined"

EmailChoices == {<<Undefined>>} \cup Emails

TokenChoices == {"undefined", "null", "fresh"}

\* updateUser with any combination of the fields email and the two tokens; a
\* token travels with its expiry and is either null or fresh, and emailVerified
\* is given with a null verification token (the shape verifyUserEmail sends)
AdapterUpdateUser(id, email, vTok, rTok) ==
    LET v    == IF vTok = "fresh" THEN nextToken ELSE NoToken
        r    == IF rTok = "fresh" THEN (IF vTok = "fresh" THEN nextToken + 1 ELSE nextToken)
                ELSE NoToken
        used == (IF vTok = "fresh" THEN 1 ELSE 0) + (IF rTok = "fresh" THEN 1 ELSE 0)
        data == [keys |->
                     (IF email # <<Undefined>> THEN {"email"} ELSE {})
                     \cup (IF vTok = "null" THEN {"emailVerified"} ELSE {})
                     \cup (IF vTok # "undefined"
                           THEN {"emailVerificationToken",
                                 "emailVerificationTokenExpiresAt"} ELSE {})
                     \cup (IF rTok # "undefined"
                           THEN {"passwordResetToken",
                                 "passwordResetTokenExpiresAt"} ELSE {}),
                 email |-> email,
                 passwordHash |-> <<>>,
                 emailVerified |-> now,
                 emailVerificationToken |-> v,
                 emailVerificationTokenExpiresAt |->
                     IF vTok = "fresh" THEN now + VERIFICATION_TTL_MS ELSE NoDate,
                 passwordResetToken |-> r,
                 passwordResetTokenExpiresAt |->
                     IF rTok = "fresh" THEN now + RESET_TTL_MS ELSE NoDate]
    IN  /\ nextToken + used <= AdapterMaxTokens + 1
        /\ Returned("updateUser", UpdateUser(DB, id, data), FALSE)
        /\ nextToken' = nextToken + used
        /\ UNCHANGED nextUserId

AdapterSetVerificationToken(id) ==
    /\ nextToken <= AdapterMaxTokens
    /\ Returned("setVerificationToken",
                SetVerificationToken(DB, id, nextToken, now + VERIFICATION_TTL_MS),
                FALSE)
    /\ nextToken' = nextToken + 1
    /\ UNCHANGED nextUserId

AdapterSetPasswordResetToken(id) ==
    /\ nextToken <= AdapterMaxTokens
    /\ Returned("setPasswordResetToken",
                SetPasswordResetToken(DB, id, nextToken, now + RESET_TTL_MS), FALSE)
    /\ nextToken' = nextToken + 1
    /\ UNCHANGED nextUserId

AdapterClearVerificationToken(id) ==
    /\ Returned("clearVerificationToken", ClearVerificationToken(DB, id), FALSE)
    /\ UNCHANGED <<nextUserId, nextToken>>

AdapterClearPasswordResetToken(id) ==
    /\ Returned("clearPasswordResetToken", ClearPasswordResetToken(DB, id), FALSE)
    /\ UNCHANGED <<nextUserId, nextToken>>

AdapterVerifyUserEmail(id) ==
    /\ Returned("verifyUserEmail", VerifyUserEmail(DB, id, now), FALSE)
    /\ UNCHANGED <<nextUserId, nextToken>>

AdapterUpdatePassword(id) ==
    /\ Returned("updatePassword", UpdatePassword(DB, id, Hash(Password1)), FALSE)
    /\ UNCHANGED <<nextUserId, nextToken>>

\* the users there are, and one id no user has
CallIds == 1..(IF nextUserId <= MaxUsers THEN nextUserId ELSE MaxUsers)

NextAdapter ==
    \/ \E email \in Emails, withToken \in BOOLEAN : AdapterCreateUser(email, withToken)
    \/ \E id \in CallIds, email \in EmailChoices,
          vTok \in TokenChoices, rTok \in TokenChoices :
           AdapterUpdateUser(id, email, vTok, rTok)
    \/ \E id \in CallIds : AdapterSetVerificationToken(id)
    \/ \E id \in CallIds : AdapterSetPasswordResetToken(id)
    \/ \E id \in CallIds : AdapterClearVerificationToken(id)
    \/ \E id \in CallIds : AdapterClearPasswordResetToken(id)
    \/ \E id \in CallIds : AdapterVerifyUserEmail(id)
    \/ \E id \in CallIds : AdapterUpdatePassword(id)

SpecAdapter == InitAdapter /\ [][NextAdapter]_vars


(***************************************************************************)
(* Claims about the rate limiter (SpecRL).                                 *)
(***************************************************************************)

\* C1: for every key and every limit N >= 1, at most N of the calls made within
\* one window (from the call that created the entry until its resetAt) are
\* allowed, and a call that comes after N calls of its window is refused with
\* remaining = 0.
C1_AtMostLimitPerWindow ==
    /\ \A k \in DOMAIN rlWindow : rlWindow[k].allowed <= rlWindow[k].limit
    /\ rlLast.nth > rlLast.limit =>
           /\ rlLast.result.allowed = FALSE
           /\ rlLast.result.remaining = 0

\* a key with limit N >= 2 whose (N+1)-th call of the window was just refused
C1_Witness ==
    /\ rlLast.limit >= 2
    /\ rlLast.nth = rlLast.limit + 1
    /\ ~rlLast.result.allowed
    /\ rlWindow[rlLast.key].allowed = rlLast.limit

\* C10: check-and-increment loses no update: whatever the order in which the
\* requests reach checkRateLimit, the count of an entry equals the number of
\* calls allowed in its window, and never exceeds the limit.
C10_NoLostUpdate ==
    \A k \in DOMAIN rateLimitStore :
        /\ MapHas(rlWindow, k)
        /\ rateLimitStore[k].count = rlWindow[k].allowed
        /\ rateLimitStore[k].count <= rlWindow[k].limit

\* two keys, each incremented past its first call, then one more call refused
C10_Witness ==
    /\ \A identifier \in Identifiers :
           LET k == RateLimitKey(identifier, <<"e1">>)
           IN  MapHas(rateLimitStore, k) /\ rateLimitStore[k].count = 2
    /\ ~rlLast.result.allowed

\* C11: a call made after the resetAt of the key's previous window is allowed
\* whatever that window's count was, and leaves the entry count = 1,
\* resetAt = now + windowSeconds * 1000; a caller refused in the old window is
\* served again.
C11_FreshWindowAfterReset ==
    (rlLast.prevEnd # NoDate /\ rlLast.at > rlLast.prevEnd) =>
        /\ rlLast.result.allowed
        /\ rlLast.result.remaining = rlLast.limit - 1
        /\ rlLast.result.resetAt = rlLast.at + rlLast.windowSeconds * 1000
        /\ rlLast.nth = 1
        /\ now = rlLast.at =>
               /\ MapHas(rateLimitStore, rlLast.key)
               /\ rateLimitStore[rlLast.key] =
                      [count |-> 1, resetAt |-> rlLast.result.resetAt]

\* the first call after the window in which the key had been refused
C11_Witness ==
    /\ rlLast.prevEnd # NoDate
    /\ rlLast.at > rlLast.prevEnd
    /\ rlLast.prevCalls > rlLast.limit
    /\ rlLast.result.allowed
    /\ rateLimitStore[rlLast.key].count = 1

(***************************************************************************)
(* Claims about the memory adapter (SpecAdapter).                          *)
(***************************************************************************)

\* C3: createUser called with an email whose lower-cased form is already in
\* the store fails with a duplicate-email error and leaves the user table and
\* the three indexes unchanged.
C3_DuplicateEmailRejected ==
    (adapterLast.op = "createUser" /\ adapterLast.dup) =>
        (adapterLast.threw /\ adapterLast.unchanged)

\* C9: the token indexes are in lockstep with the records: an index maps token
\* t to user u exactly when u's record holds t, for both purposes, so that a
\* user has at most one resolvable token per purpose and no entry is stale.
C9_TokenIndexLockstep ==
    /\ \A t \in DOMAIN verificationTokenIndex :
           /\ MapHas(users, verificationTokenIndex[t])
           /\ users[verificationTokenIndex[t]].emailVerificationToken = t
    /\ \A t \in DOMAIN passwordResetTokenIndex :
           /\ MapHas(users, passwordResetTokenIndex[t])
           /\ users[passwordResetTokenIndex[t]].passwordResetToken = t
    /\ \A u \in DOMAIN users :
           /\ users[u].emailVerificationToken # NoToken =>
                  /\ MapHas(verificationTokenIndex, users[u].emailVerificationToken)
                  /\ verificationTokenIndex[users[u].emailVerificationToken] = u
           /\ users[u].passwordResetToken # NoToken =>
                  /\ MapHas(passwordResetTokenIndex, users[u].passwordResetToken)
                  /\ passwordResetTokenIndex[users[u].passwordResetToken] = u

\* a user whose first token was superseded by a second one
C9_Witness ==
    \E u \in DOMAIN users :
        /\ nextToken = 3
        /\ \/ users[u].emailVerificationToken = 2 /\ ~MapHas(verificationTokenIndex, 1)
           \/ users[u].passwordResetToken = 2 /\ ~MapHas(passwordResetTokenIndex, 1)
        /\ Cardinality(DOMAIN verificationTokenIndex
                       \cup DOMAIN passwordResetTokenIndex) = 1


(***************************************************************************)
(* Validation, IP hashing and the rate-limit policies of the routes.       *)
(***************************************************************************)
UpperChars == {"A", "B", "N"}

LowerChars == {"a", "b", "c", "d", "e", "f", "g", "h", "x"}

DigitChars == {"1", "2"}

HasChar(p, class) == \E i \in 1..Len(p) : p[i] \in class

\* passwordSchema of registerSchema
PasswordPolicy(p) ==
    /\ Len(p) >= 8
    /\ Len(p) <= 128
    /\ HasChar(p, UpperChars)
    /\ HasChar(p, LowerChars)
    /\ HasChar(p, DigitChars)

\* emailSchema: z.string().email().max(255); an address has a local part, one
\* "@" and a domain
EmailSyntax(e) ==
    /\ Len(e) <= 255
    /\ \E i \in 2..(Len(e) - 1) : e[i] = "@" /\ \A j \in 1..Len(e) : e[j] = "@" => j = i

\* loginSchema: z.string().email() and a password of at least one character
LoginValid(email, password) ==
    /\ \E i \in 2..(Len(email) - 1) :
           email[i] = "@" /\ \A j \in 1..Len(email) : email[j] = "@" => j = i
    /\ Len(password) >= 1

\* registerSchema.safeParse(body).success
RegisterValid(email, password) == EmailSyntax(email) /\ PasswordPolicy(password)

\* reset-password: `!token || !password` or `password.length < 8` answer 400
ResetValid(token, password) ==
    /\ token # NoToken
    /\ password # <<>>
    /\ ~(Len(password) < 8)

\* hashIP(ip): sha256 of `${salt}:${ip}`, injective on the addresses of the model
HashIP(ip) == <<"sha256">> \o ToLowerCase(ip)

\* the policies with those of registration and resend exchanged
RateLimitsExchanged ==
    [REGISTRATION       |-> [limit |-> 3, windowSeconds |-> 3600],
     LOGIN              |-> [limit |-> 10, windowSeconds |-> 900],
     PASSWORD_RESET     |-> [limit |-> 5, windowSeconds |-> 3600],
     VERIFICATION_EMAIL |-> [limit |-> 5, windowSeconds |-> 3600],
     GENERAL            |-> [limit |-> 100, windowSeconds |-> 60]]

RATE_LIMITS ==
    [REGISTRATION       |-> [limit |-> 5, windowSeconds |-> 3600],
     LOGIN              |-> [limit |-> 10, windowSeconds |-> 900],
     PASSWORD_RESET     |-> [limit |-> 5, windowSeconds |-> 3600],
     VERIFICATION_EMAIL |-> [limit |-> 3, windowSeconds |-> 3600],
     GENERAL            |-> [limit |-> 100, windowSeconds |-> 60]]

\* history: the window of a key as a client sees it, opened by the first
\* request after the previous window ended and windowSeconds long; the
\* requests in it are counted up to one past the limit
ObserveRequest(win, key, t, config) ==
    LET fresh == ~MapHas(win, key) \/ t > win[key].end
        calls == IF fresh THEN 0 ELSE win[key].calls
    IN  [end     |-> IF fresh THEN t + config.windowSeconds * 1000 ELSE win[key].end,
         limit   |-> config.limit,
         calls   |-> IF calls > config.limit THEN calls ELSE calls + 1,
         allowed |-> 0]

\* tokenData.expiresAt < new Date()
TokenExpired(expiresAt, t) == expiresAt < t

ClientIp == <<"ip1">>

Password2 == <<"a", "b", "c", "d", "e", "f", "g", "h">>

Password3 == <<"A", "b", "1">>

AuthEmails == {<<"A", "@", "x">>, <<"b", "@", "x">>}

AuthDeltas == {RESET_TTL_MS, VERIFICATION_TTL_MS, VERIFICATION_TTL_MS + 1}

(***************************************************************************)
(* The route handlers.  A request is received into the lowest free slot    *)
(* and runs its first block at once; every later action is the block of    *)
(* the handler that follows one await.                                     *)
(***************************************************************************)
\* the state one Register of a@x leaves when it is served alone at time 0
Registered ==
    LET g == CheckRateLimit(EmptyMap, 0, 0, HashIP(ClientIp), <<"register">>,
                            RATE_LIMITS.REGISTRATION)
        c == CreateUser([users |-> EmptyMap, emailIndex |-> EmptyMap,
                         verificationTokenIndex |-> EmptyMap,
                         passwordResetTokenIndex |-> EmptyMap], 1,
                        [email |-> <<"a", "@", "x">>, passwordHash |-> Hash(Password1),
                         emailVerificationToken |-> 1,
                         emailVerificationTokenExpiresAt |-> VERIFICATION_TTL_MS])
    IN  [store |-> g.store, db |-> c.db,
         window |-> MapSet(EmptyMap, RateLimitKey(HashIP(ClientIp), <<"register">>),
                           ObserveRequest(EmptyMap, <<"register">>, 0,
                                          RATE_LIMITS.REGISTRATION))]

InitRegistered ==
    /\ now = 0
    /\ ticks = 0
    /\ rateLimitStore = Registered.store
    /\ lastCleanupTime = 0
    /\ rlWindow = Registered.window
    /\ rlLast = NoCheck
    /\ unsweptStore = EmptyMap
    /\ users = Registered.db.users
    /\ emailIndex = Registered.db.emailIndex
    /\ verificationTokenIndex = Registered.db.verificationTokenIndex
    /\ passwordResetTokenIndex = Registered.db.passwordResetTokenIndex
    /\ nextUserId = 2
    /\ nextToken = 2
    /\ reqs = [r \in Slots |-> IdleReq]
    /\ lastDone = IdleReq
    /\ started = 0
    /\ issued = MapSet(EmptyMap, 1, [userId |-> 1, purpose |-> "verify"])
    /\ consumed = {}
    /\ credentials = MapSet(EmptyMap, 1, [email |-> <<"a", "@", "x">>,
                                          password |-> Password1])
    /\ adapterLast = NoCall
    /\ secretValidated = FALSE
    /\ gateLast = NoGate
    /\ resolvedSalt = NoSalt
    /\ env = [IP_HASH_SALT |-> <<"undefined">>, NODE_ENV |-> "development"]
    /\ hashLast = NoHash
    /\ hashSeen = EmptyMap

\* the server starts empty, or has served one Register before
InitAuth == (InitStore \/ InitRegistered) /\ policy = EmptyMap

Free(r) == reqs[r].pc = "idle"

\* the slot a new request is received into
FreeSlot(r) ==
    /\ Free(r)
    /\ \A q \in Slots : q < r => ~Free(q)

\* the server has received fewer than max requests
Quota(max) == started < max

\* requests in flight that will still draw a user id, or a token
PendingUsers ==
    Cardinality({r \in Slots : reqs[r].kind = "register"
                               /\ reqs[r].pc \in {"exists", "create"}})

PendingTokens ==
    Cardinality({r \in Slots :
        \/ reqs[r].kind = "register" /\ reqs[r].pc \in {"exists", "create"}
        \/ reqs[r].kind \in {"forgot", "resend"} /\ reqs[r].pc \in {"find", "set"}})

RoomForUser == nextUserId + PendingUsers <= MaxUsers

RoomForToken == nextToken + PendingTokens <= MaxTokens

\* the response of a finished request
Respond(req, status, code) ==
    [req EXCEPT !.pc = "done", !.status = status, !.code = code, !.password = <<>>]

\* slot r goes on as `req`; a request that has its response leaves the slot
Step(r, req) ==
    IF req.pc = "done"
    THEN /\ reqs' = [reqs EXCEPT ![r] = IdleReq]
         /\ lastDone' = req
    ELSE /\ reqs' = [reqs EXCEPT ![r] = req]
         /\ UNCHANGED lastDone

\* applyRateLimit(ipHash, endpoint, config) at the head of a route
Gate(endpoint, config) ==
    [check  |-> CheckRateLimit(rateLimitStore, lastCleanupTime, now,
                               HashIP(ClientIp), <<endpoint>>, config),
     key    |-> RateLimitKey(HashIP(ClientIp), <<endpoint>>),
     config |-> config]

\* a first block that goes on with the handler whatever the limiter answered
ReceiveUngated(r, g, req, next) ==
    LET w == ObserveRequest(rlWindow, g.key, now, g.config)
    IN  /\ rateLimitStore' = g.check.store
        /\ lastCleanupTime' = g.check.last
        /\ rlWindow' = MapSet(rlWindow, g.key, w)
        /\ started' = started + 1
        /\ Step(r, [next EXCEPT !.nth = w.calls])
        /\ UNCHANGED <<now, ticks, policy, rlLast, unsweptStore, dbVars, issued, consumed,
                       auxVars, credentials>>

\* the first block of a rate-limited route: 429 when refused, else `next`
Receive(r, g, req, next) ==
    LET w   == ObserveRequest(rlWindow, g.key, now, g.config)
        res == IF ~g.check.result.allowed THEN Respond(req, 429, "RATE_LIMITED")
               ELSE next
    IN  /\ rateLimitStore' = g.check.store
        /\ lastCleanupTime' = g.check.last
        /\ rlWindow' = MapSet(rlWindow, g.key, w)
        /\ started' = started + 1
        /\ Step(r, [res EXCEPT !.nth = w.calls])
        /\ UNCHANGED <<now, ticks, policy, rlLast, unsweptStore, dbVars, issued, consumed,
                       auxVars, credentials>>

\* the database after an adapter call
Store(db) ==
    /\ users' = db.users
    /\ emailIndex' = db.emailIndex
    /\ verificationTokenIndex' = db.verificationTokenIndex
    /\ passwordResetTokenIndex' = db.passwordResetTokenIndex

\* the newest token issued for the user and purpose of token t
Latest(t) ==
    CHOOSE n \in DOMAIN issued :
        /\ issued[n] = issued[t]
        /\ \A m \in DOMAIN issued : issued[m] = issued[t] => m <= n

\* two emails that differ at most in letter case
SameEmail(a, b) ==
    /\ Len(a) = Len(b)
    /\ \A i \in 1..Len(a) : LowerChar(a[i]) = LowerChar(b[i])

\* the record registered last under the email, 0 when there is none
AccountOf(email) ==
    LET ids == {u \in DOMAIN credentials : SameEmail(credentials[u].email, email)}
    IN  IF ids = {} THEN 0 ELSE CHOOSE u \in ids : \A v \in ids : v <= u

\* a confirmation has succeeded with a token of this purpose issued to user u
HasConfirmed(u, purpose) ==
    \E t \in consumed : issued[t] = [userId |-> u, purpose |-> purpose]

\* ------------------------------------------------------------- register
RegisterReceive(r, email, password) ==
    /\ FreeSlot(r)
    /\ RoomForUser /\ RoomForToken
    /\ LET req == [IdleReq EXCEPT !.kind = "register", !.email = email,
                                  !.password = password]
       IN  Receive(r, Gate("register", RATE_LIMITS.REGISTRATION), req,
                   IF ~RegisterValid(email, password)
                   THEN Respond(req, 400, "VALIDATION_ERROR")
                   ELSE [req EXCEPT !.pc = "exists", !.email = ToLowerCase(email)])

\* await adapter.emailExists(email)
RegisterExists(r) ==
    /\ reqs[r].kind = "register" /\ reqs[r].pc = "exists"
    /\ LET req == [reqs[r] EXCEPT !.known = AccountOf(reqs[r].email) # 0]
       IN  Step(r,
                IF EmailExists(DB, reqs[r].email)
                THEN Respond(req, 409, "EMAIL_EXISTS")
                ELSE [req EXCEPT !.pc = "create"])
    /\ UNCHANGED <<now, ticks, rlVars, dbVars, started, issued, consumed, auxVars,
                   credentials>>

\* after bcrypt: randomUUID(), Date.now() + 24 h, await adapter.createUser(...)
RegisterCreate(r) ==
    /\ reqs[r].kind = "register" /\ reqs[r].pc = "create"
    /\ LET c == CreateUser(DB, nextUserId,
                    [email |-> reqs[r].email,
                     passwordHash |-> Hash(reqs[r].password),
                     emailVerificationToken |-> nextToken,
                     emailVerificationTokenExpiresAt |-> now + VERIFICATION_TTL_MS])
       IN  /\ Store(c.db)
           /\ Step(r,
                   IF c.threw THEN Respond(reqs[r], 500, "INTERNAL_ERROR")
                   ELSE [reqs[r] EXCEPT !.pc = "send", !.userId = nextUserId,
                                        !.newToken = nextToken,
                                        !.password = <<>>])
           /\ issued' = IF c.threw THEN issued
                        ELSE MapSet(issued, nextToken,
                                    [userId |-> nextUserId, purpose |-> "verify"])
    /\ nextUserId' = nextUserId + 1
    /\ nextToken' = nextToken + 1
    /\ UNCHANGED <<now, ticks, rlVars, started, consumed, auxVars>>
    /\ credentials' = MapSet(credentials, nextUserId,
                              [email |-> reqs[r].email, password |-> reqs[r].password])

\* a register that lets a failure of the email collaborator reach the outer
\* catch block
RegisterSendPropagates(r, sent) ==
    /\ reqs[r].kind = "register" /\ reqs[r].pc = "send"
    /\ Step(r,
            IF sent THEN Respond([reqs[r] EXCEPT !.sent = "ok"],
                                 201, "VERIFICATION_EMAIL_SENT")
            ELSE Respond([reqs[r] EXCEPT !.sent = "failed"], 500, "INTERNAL_ERROR"))
    /\ UNCHANGED <<now, ticks, rlVars, dbVars, started, issued, consumed, auxVars,
                   credentials>>

\* sendVerificationEmail in try/catch: a failure is logged, the answer is 201
RegisterSend(r, sent) ==
    /\ reqs[r].kind = "register" /\ reqs[r].pc = "send"
    /\ Step(r, Respond([reqs[r] EXCEPT !.sent = IF sent THEN "ok" ELSE "failed"],
                        201, "VERIFICATION_EMAIL_SENT"))
    /\ UNCHANGED <<now, ticks, rlVars, dbVars, started, issued, consumed, auxVars,
                   credentials>>

\* ------------------------------------------------------ forgot-password
ForgotReceive(r, email) ==
    /\ FreeSlot(r)
    /\ RoomForToken
    /\ LET req == [IdleReq EXCEPT !.kind = "forgot", !.email = email]
       IN  Receive(r, Gate("forgot-password", RATE_LIMITS.PASSWORD_RESET), req,
                   IF email = <<>> THEN Respond(req, 400, "VALIDATION_ERROR")
                   ELSE [req EXCEPT !.pc = "find"])

\* a forgot-password that answers 404 for an unknown email, as the resend does
ForgotFindReveals(r) ==
    /\ reqs[r].kind = "forgot" /\ reqs[r].pc = "find"
    /\ LET userId == FindUserByEmail(DB, reqs[r].email)
       IN  Step(r,
                IF userId = 0 THEN Respond(reqs[r], 404, "NOT_FOUND")
                ELSE [reqs[r] EXCEPT !.pc = "set", !.userId = userId])
    /\ UNCHANGED <<now, ticks, rlVars, dbVars, started, issued, consumed, auxVars,
                   credentials>>

\* await adapter.findUserByEmail(email)
ForgotFind(r) ==
    /\ reqs[r].kind = "forgot" /\ reqs[r].pc = "find"
    /\ LET userId == FindUserByEmail(DB, reqs[r].email)
       IN  Step(r,
                IF userId = 0 THEN Respond(reqs[r], 200, "OK")
                ELSE [reqs[r] EXCEPT !.pc = "set", !.userId = userId])
    /\ UNCHANGED <<now, ticks, rlVars, dbVars, started, issued, consumed, auxVars,
                   credentials>>

\* randomUUID(), Date.now() + 1 h, await adapter.setPasswordResetToken(...)
ForgotSet(r) ==
    /\ reqs[r].kind = "forgot" /\ reqs[r].pc = "set"
    /\ LET c == SetPasswordResetToken(DB, reqs[r].userId, nextToken, now + RESET_TTL_MS)
       IN  /\ Store(c.db)
           /\ Step(r,
                   IF c.threw THEN Respond(reqs[r], 500, "INTERNAL_ERROR")
                   ELSE [reqs[r] EXCEPT !.pc = "send", !.newToken = nextToken])
           /\ issued' = IF c.threw THEN issued
                        ELSE MapSet(issued, nextToken,
                                    [userId |-> reqs[r].userId, purpose |-> "reset"])
    /\ nextToken' = nextToken + 1
    /\ UNCHANGED <<now, ticks, rlVars, nextUserId, started, consumed, auxVars,
                   credentials>>

\* await sendPasswordResetEmail(...): a failure reaches the catch block
ForgotSend(r, sent) ==
    /\ reqs[r].kind = "forgot" /\ reqs[r].pc = "send"
    /\ Step(r,
            IF sent THEN Respond([reqs[r] EXCEPT !.sent = "ok"], 200, "OK")
            ELSE Respond([reqs[r] EXCEPT !.sent = "failed"], 500, "INTERNAL_ERROR"))
    /\ UNCHANGED <<now, ticks, rlVars, dbVars, started, issued, consumed, auxVars,
                   credentials>>

\* ---------------------------------------------------- POST verify-email
ResendReceive(r, email) ==
    /\ FreeSlot(r)
    /\ RoomForToken
    /\ LET req == [IdleReq EXCEPT !.kind = "resend", !.email = email]
       IN  Receive(r, Gate("verify-email", RATE_LIMITS.VERIFICATION_EMAIL), req,
                   IF email = <<>> THEN Respond(req, 400, "VALIDATION_ERROR")
                   ELSE [req EXCEPT !.pc = "find"])

\* what the history says of the account a resend names: registered, and
\* confirmed by one of its verification tokens
Seen(req) ==
    LET u == AccountOf(req.email)
    IN  [req EXCEPT !.known = u # 0, !.verified = u # 0 /\ HasConfirmed(u, "verify")]

\* a resend that issues a new token to a verified account as well
ResendFindAlways(r) ==
    /\ reqs[r].kind = "resend" /\ reqs[r].pc = "find"
    /\ LET userId == FindUserByEmail(DB, reqs[r].email)
           req    == Seen(reqs[r])
       IN  Step(r,
                IF userId = 0 THEN Respond(req, 404, "NOT_FOUND")
                ELSE [req EXCEPT !.pc = "set", !.userId = userId])
    /\ UNCHANGED <<now, ticks, rlVars, dbVars, started, issued, consumed, auxVars,
                   credentials>>

\* await adapter.findUserByEmail(email); the copy it returns decides the
\* 404 and the idempotent 200
ResendFind(r) ==
    /\ reqs[r].kind = "resend" /\ reqs[r].pc = "find"
    /\ LET userId == FindUserByEmail(DB, reqs[r].email)
           req    == Seen(reqs[r])
       IN  Step(r,
                IF userId = 0 THEN Respond(req, 404, "NOT_FOUND")
                ELSE IF users[userId].emailVerified # NoDate
                THEN Respond(req, 200, "OK")
                ELSE [req EXCEPT !.pc = "set", !.userId = userId])
    /\ UNCHANGED <<now, ticks, rlVars, dbVars, started, issued, consumed, auxVars,
                   credentials>>

\* randomUUID(), Date.now() + 24 h, await adapter.setVerificationToken(...)
ResendSet(r) ==
    /\ reqs[r].kind = "resend" /\ reqs[r].pc = "set"
    /\ LET c == SetVerificationToken(DB, reqs[r].userId, nextToken,
                                     now + VERIFICATION_TTL_MS)
       IN  /\ Store(c.db)
           /\ Step(r,
                   IF c.threw THEN Respond(reqs[r], 500, "INTERNAL_ERROR")
                   ELSE [reqs[r] EXCEPT !.pc = "send", !.newToken = nextToken])
           /\ issued' = IF c.threw THEN issued
                        ELSE MapSet(issued, nextToken,
                                    [userId |-> reqs[r].userId, purpose |-> "verify"])
    /\ nextToken' = nextToken + 1
    /\ UNCHANGED <<now, ticks, rlVars, nextUserId, started, consumed, auxVars,
                   credentials>>

\* await sendVerificationEmail(...): a failure reaches the catch block
ResendSend(r, sent) ==
    /\ reqs[r].kind = "resend" /\ reqs[r].pc = "send"
    /\ Step(r,
            IF sent THEN Respond([reqs[r] EXCEPT !.sent = "ok"], 200, "OK")
            ELSE Respond([reqs[r] EXCEPT !.sent = "failed"], 500, "INTERNAL_ERROR"))
    /\ UNCHANGED <<now, ticks, rlVars, dbVars, started, issued, consumed, auxVars,
                   credentials>>

\* ----------------------------------------------------- GET verify-email
\* no confirmation has succeeded yet with a token of the user and purpose of t
NoneConsumed(t) == \A c \in consumed : issued[c] # issued[t]

\* what the history says of token t when a confirmation looks it up: used
\* before, replaced by a newer token, or live (the newest token of its user and
\* purpose, none of which has been used)
Looked(req, t, data) ==
    [req EXCEPT !.userId = data.userId, !.expiresAt = data.expiresAt,
                !.afterConsumed = t \in consumed,
                !.afterSuperseded = MapHas(issued, t) /\ Latest(t) # t,
                !.wasLive = MapHas(issued, t) /\ Latest(t) = t /\ NoneConsumed(t)]

\* no rate limit; await adapter.getVerificationToken(token)
VerifyReceive(r, token) ==
    /\ FreeSlot(r)
    /\ started' = started + 1
    /\ LET req  == [IdleReq EXCEPT !.kind = "verify", !.token = token]
           data == GetVerificationToken(DB, token)
       IN  Step(r,
                IF token = NoToken THEN Respond(req, 400, "VALIDATION_ERROR")
                ELSE IF data.userId = 0
                THEN Respond(Looked(req, token, data), 400,
                             "INVALID_VERIFICATION_TOKEN")
                ELSE [Looked(req, token, data) EXCEPT !.pc = "apply"])
    /\ UNCHANGED <<now, ticks, rlVars, dbVars, issued, consumed, auxVars,
                   credentials>>

\* a confirmation that clears the token it found expired
VerifyApplyPurges(r) ==
    /\ reqs[r].kind = "verify" /\ reqs[r].pc = "apply"
    /\ LET req == [reqs[r] EXCEPT !.checkedAt = now]
           c   == IF TokenExpired(req.expiresAt, now)
                  THEN ClearVerificationToken(DB, req.userId)
                  ELSE VerifyUserEmail(DB, req.userId, now)
       IN  /\ Store(c.db)
           /\ Step(r,
                   IF TokenExpired(req.expiresAt, now)
                   THEN Respond(req, 400, "VERIFICATION_TOKEN_EXPIRED")
                   ELSE IF c.threw THEN Respond(req, 500, "INTERNAL_ERROR")
                   ELSE Respond(req, 307, "REDIRECT"))
           /\ consumed' = IF c.threw \/ TokenExpired(req.expiresAt, now)
                          THEN consumed ELSE consumed \cup {req.token}
    /\ UNCHANGED <<now, ticks, rlVars, nextUserId, nextToken, started, issued,
                   auxVars, credentials>>

\* the expiry test against new Date(), then await adapter.verifyUserEmail(userId)
VerifyApply(r) ==
    /\ reqs[r].kind = "verify" /\ reqs[r].pc = "apply"
    /\ LET req == [reqs[r] EXCEPT !.checkedAt = now]
           c   == VerifyUserEmail(DB, req.userId, now)
       IN  IF TokenExpired(req.expiresAt, now)
           THEN /\ Step(r, Respond(req, 400, "VERIFICATION_TOKEN_EXPIRED"))
                /\ UNCHANGED <<users, emailIndex, verificationTokenIndex,
                               passwordResetTokenIndex, consumed>>
           ELSE /\ Store(c.db)
                /\ Step(r,
                        IF c.threw THEN Respond(req, 500, "INTERNAL_ERROR")
                        ELSE Respond(req, 307, "REDIRECT"))
                /\ consumed' = IF c.threw THEN consumed ELSE consumed \cup {req.token}
    /\ UNCHANGED <<now, ticks, rlVars, nextUserId, nextToken, started, issued,
                   auxVars, credentials>>

\* ------------------------------------------------------- reset-password
ResetReceive(r, token, password) ==
    /\ FreeSlot(r)
    /\ LET req == [IdleReq EXCEPT !.kind = "reset", !.token = token,
                                  !.password = password,
                                  !.strong = PasswordPolicy(password)]
       IN  Receive(r, Gate("reset-password", RATE_LIMITS.PASSWORD_RESET), req,
                   IF ~ResetValid(token, password)
                   THEN Respond(req, 400, "VALIDATION_ERROR")
                   ELSE [req EXCEPT !.pc = "lookup"])

\* await adapter.getPasswordResetToken(token)
ResetLookup(r) ==
    /\ reqs[r].kind = "reset" /\ reqs[r].pc = "lookup"
    /\ LET data == GetPasswordResetToken(DB, reqs[r].token)
           req  == Looked(reqs[r], reqs[r].token, data)
       IN  Step(r,
                IF data.userId = 0
                THEN Respond(req, 400, "INVALID_RESET_TOKEN")
                ELSE [req EXCEPT !.pc = "check"])
    /\ UNCHANGED <<now, ticks, rlVars, dbVars, started, issued, consumed, auxVars,
                   credentials>>

\* the expiry test against new Date(), then bcrypt starts
ResetCheck(r) ==
    /\ reqs[r].kind = "reset" /\ reqs[r].pc = "check"
    /\ LET req == [reqs[r] EXCEPT !.checkedAt = now]
       IN  Step(r,
                IF TokenExpired(req.expiresAt, now)
                THEN Respond(req, 400, "RESET_TOKEN_EXPIRED")
                ELSE [req EXCEPT !.pc = "update"])
    /\ UNCHANGED <<now, ticks, rlVars, dbVars, started, issued, consumed, auxVars,
                   credentials>>

\* await adapter.updatePassword(userId, passwordHash)
ResetUpdate(r) ==
    /\ reqs[r].kind = "reset" /\ reqs[r].pc = "update"
    /\ LET c == UpdatePassword(DB, reqs[r].userId, Hash(reqs[r].password))
       IN  /\ Store(c.db)
           /\ Step(r,
                   IF c.threw THEN Respond(reqs[r], 500, "INTERNAL_ERROR")
                   ELSE Respond([reqs[r] EXCEPT !.reused = reqs[r].token \in consumed],
                                200, "OK"))
           /\ consumed' = IF c.threw THEN consumed ELSE consumed \cup {reqs[r].token}
           /\ credentials' =
                  IF c.threw THEN credentials
                  ELSE [credentials EXCEPT ![reqs[r].userId].password = reqs[r].password]
    /\ UNCHANGED <<now, ticks, rlVars, nextUserId, nextToken, started, issued,
                   auxVars>>

\* ----------------------------------------------------------------- login
\* what the history says of the account a request names
Account(req, email, password) ==
    LET u == AccountOf(email)
    IN  [req EXCEPT !.known = u # 0,
                    !.pwMatch = u # 0 /\ credentials[u].password = password,
                    !.verified = u # 0 /\ HasConfirmed(u, "verify"),
                    !.afterReset = u # 0 /\ HasConfirmed(u, "reset")]

\* authorize that lets an unverified account in
AuthorizeSkipVerified(db, email, password) ==
    IF email = <<>> \/ password = <<>> THEN "Email and password are required"
    ELSE IF ~LoginValid(email, password) THEN "Invalid email or password"
    ELSE LET userId == FindUserByEmail(db, ToLowerCase(email))
         IN  IF userId = 0 THEN "Invalid email or password"
             ELSE IF ~Compare(password, db.users[userId].passwordHash)
             THEN "Invalid email or password"
             ELSE "OK"

\* authorize that tells a missing account from a wrong password
AuthorizeReveals(db, email, password) ==
    IF email = <<>> \/ password = <<>> THEN "Email and password are required"
    ELSE IF ~LoginValid(email, password) THEN "Invalid email or password"
    ELSE LET userId == FindUserByEmail(db, ToLowerCase(email))
         IN  IF userId = 0 THEN "No account with this email"
             ELSE IF ~Compare(password, db.users[userId].passwordHash)
             THEN "Invalid email or password"
             ELSE IF db.users[userId].emailVerified = NoDate
             THEN "EMAIL_NOT_VERIFIED"
             ELSE "OK"

\* authorize that tests emailVerified before it compares the password
AuthorizeVerifiedFirst(db, email, password) ==
    IF email = <<>> \/ password = <<>> THEN "Email and password are required"
    ELSE IF ~LoginValid(email, password) THEN "Invalid email or password"
    ELSE LET userId == FindUserByEmail(db, ToLowerCase(email))
         IN  IF userId = 0 THEN "Invalid email or password"
             ELSE IF db.users[userId].emailVerified = NoDate
             THEN "EMAIL_NOT_VERIFIED"
             ELSE IF ~Compare(password, db.users[userId].passwordHash)
             THEN "Invalid email or password"
             ELSE "OK"

\* authorize(credentials): the message of the Error it throws, or "OK"
Authorize(db, email, password) ==
    IF email = <<>> \/ password = <<>> THEN "Email and password are required"
    ELSE IF ~LoginValid(email, password) THEN "Invalid email or password"
    ELSE LET userId == FindUserByEmail(db, ToLowerCase(email))
         IN  IF userId = 0 THEN "Invalid email or password"
             ELSE IF ~Compare(password, db.users[userId].passwordHash)
             THEN "Invalid email or password"
             ELSE IF db.users[userId].emailVerified = NoDate
             THEN "EMAIL_NOT_VERIFIED"
             ELSE "OK"

\* a login: authorize reads the store once, in findUserByEmail, and decides
\* from the copy it got
Answer(email, password, nth) ==
    LET req  == Account([IdleReq EXCEPT !.kind = "login", !.email = email,
                                        !.wellFormed = LoginValid(email, password),
                                        !.nth = nth],
                        email, password)
        code == Authorize(DB, email, password)
    IN  lastDone' = Respond(req, IF code = "OK" THEN 200 ELSE 401, code)

Login(email, password) ==
    /\ Answer(email, password, 0)
    /\ UNCHANGED <<now, ticks, rlVars, dbVars, reqs, started, issued, consumed,
                   credentials, auxVars>>

\* a login whose place in the client's 15-minute window is kept as history;
\* authorize itself never calls the rate limiter
LoginAttempt(email, password) ==
    LET key == RateLimitKey(HashIP(ClientIp), <<"login">>)
        w   == ObserveRequest(rlWindow, key, now, RATE_LIMITS.LOGIN)
    IN  /\ Answer(email, password, w.calls)
        /\ rlWindow' = MapSet(rlWindow, key, w)
        /\ UNCHANGED <<now, ticks, rateLimitStore, lastCleanupTime, policy, rlLast,
                       unsweptStore,
                       dbVars, reqs, started, issued, consumed, credentials,
                       auxVars>>

\* the tokens a client can present: none, or any token issued so far
KnownTokens == 0..(nextToken - 1)

NextAuth ==
    \/ \E d \in AuthDeltas : Tick(d, AuthMaxTicks)
    \/ \E r \in Slots, email \in AuthEmails, password \in {Password1, Password2} :
           Quota(MaxReqs) /\ RegisterReceive(r, email, password)
    \/ \E r \in Slots : RegisterExists(r)
    \/ \E r \in Slots : RegisterCreate(r)
    \/ \E r \in Slots, sent \in BOOLEAN : RegisterSend(r, sent)
    \/ \E r \in Slots, email \in AuthEmails \cup {<<>>} :
           Quota(MaxReqs) /\ ForgotReceive(r, email)
    \/ \E r \in Slots : ForgotFind(r)
    \/ \E r \in Slots : ForgotSet(r)
    \/ \E r \in Slots, sent \in BOOLEAN : ForgotSend(r, sent)
    \/ \E r \in Slots, email \in AuthEmails \cup {<<>>} :
           Quota(MaxReqs) /\ ResendReceive(r, email)
    \/ \E r \in Slots : ResendFind(r)
    \/ \E r \in Slots : ResendSet(r)
    \/ \E r \in Slots, sent \in BOOLEAN : ResendSend(r, sent)
    \/ \E r \in Slots, token \in KnownTokens :
           Quota(MaxReqs) /\ VerifyReceive(r, token)
    \/ \E r \in Slots : VerifyApply(r)
    \/ \E r \in Slots, token \in KnownTokens, password \in {Password1, Password3} :
           Quota(MaxReqs) /\ ResetReceive(r, token, password)
    \/ \E r \in Slots : ResetLookup(r)
    \/ \E r \in Slots : ResetCheck(r)
    \/ \E r \in Slots : ResetUpdate(r)

SpecAuth == InitAuth /\ [][NextAuth]_vars

(***************************************************************************)
(* The routes together with login: one account email, a second email that *)
(* is never registered, a clock step that expires every token issued       *)
(* before it, and logins at any point.                                     *)
(***************************************************************************)
Password4 == <<"B", "b", "c", "d", "e", "f", "1", "2">>

LoginEmail == <<"A", "@", "x">>

LoginDeltas == {VERIFICATION_TTL_MS + 1}

NextLogin ==
    \/ \E d \in LoginDeltas : Tick(d, AuthMaxTicks)
    \/ \E r \in Slots :
           Quota(MaxReqs) /\ RegisterReceive(r, LoginEmail, Password1)
    \/ \E r \in Slots : RegisterExists(r)
    \/ \E r \in Slots : RegisterCreate(r)
    \/ \E r \in Slots, sent \in BOOLEAN : RegisterSend(r, sent)
    \/ \E r \in Slots :
           Quota(MaxReqs) /\ ForgotReceive(r, LoginEmail)
    \/ \E r \in Slots : ForgotFind(r)
    \/ \E r \in Slots : ForgotSet(r)
    \/ \E r \in Slots, sent \in BOOLEAN : ForgotSend(r, sent)
    \/ \E r \in Slots :
           Quota(MaxReqs) /\ ResendReceive(r, LoginEmail)
    \/ \E r \in Slots : ResendFind(r)
    \/ \E r \in Slots : ResendSet(r)
    \/ \E r \in Slots, sent \in BOOLEAN : ResendSend(r, sent)
    \/ \E r \in Slots, token \in KnownTokens \ {NoToken} :
           Quota(MaxReqs) /\ VerifyReceive(r, token)
    \/ \E r \in Slots : VerifyApply(r)
    \/ \E r \in Slots, token \in KnownTokens \ {NoToken},
          password \in {Password2, Password3, Password4} :
           Quota(MaxReqs) /\ ResetReceive(r, token, password)
    \/ \E r \in Slots : ResetLookup(r)
    \/ \E r \in Slots : ResetCheck(r)
    \/ \E r \in Slots : ResetUpdate(r)
    \/ \E email \in AuthEmails, password \in {Password1, Password4, <<>>} :
           Login(email, password)

SpecLogin == InitAuth /\ [][NextLogin]_vars

(***************************************************************************)
(* IP hashing (lib/ip-hash): any sequence of hashIP calls.  The deployment *)
(* (NODE_ENV) is set before the first call; IP_HASH_SALT may be set,       *)
(* changed or removed at any time.                                         *)
(***************************************************************************)
DEFAULT_SALT == <<"auth-template-default-salt-dev-only">>

\* String.prototype.trim: drop the spaces at both ends
Trim(s) ==
    LET kept == {i \in 1..Len(s) : s[i] # " "}
    IN  IF kept = {} THEN <<>>
        ELSE SubSeq(s, CHOOSE i \in kept : \A j \in kept : i <= j,
                       CHOOSE i \in kept : \A j \in kept : i >= j)

\* getEffectiveSalt without the production test
GetEffectiveSaltAnywhere(resolved, e) ==
    IF resolved # NoSalt
    THEN [threw |-> FALSE, warned |-> FALSE, salt |-> resolved, resolved |-> resolved]
    ELSE LET unset == e.IP_HASH_SALT \in {<<"undefined">>, <<>>}
             salt  == IF unset THEN DEFAULT_SALT ELSE e.IP_HASH_SALT
         IN  [threw |-> FALSE, warned |-> unset, salt |-> salt, resolved |-> salt]

\* getEffectiveSalt(): what it returns or that it throws, and resolvedSalt after
GetEffectiveSalt(resolved, e) ==
    IF resolved # NoSalt
    THEN [threw |-> FALSE, warned |-> FALSE, salt |-> resolved, resolved |-> resolved]
    ELSE LET unset == e.IP_HASH_SALT \in {<<"undefined">>, <<>>}
             salt  == IF unset THEN DEFAULT_SALT ELSE e.IP_HASH_SALT
         IN  IF unset /\ e.NODE_ENV = "production"
             THEN [threw |-> TRUE, warned |-> FALSE, salt |-> NoSalt,
                   resolved |-> resolved]
             ELSE [threw |-> FALSE, warned |-> unset, salt |-> salt,
                   resolved |-> salt]

\* hashIP(ip): sha256 of `${getEffectiveSalt()}:${normalizedIP}`
SaltedHashIP(ip) ==
    LET g            == GetEffectiveSalt(resolvedSalt, env)
        normalizedIP == ToLowerCase(Trim(ip))
        hash         == <<"sha256">> \o g.salt \o <<":">> \o normalizedIP
    IN  /\ resolvedSalt' = g.resolved
        /\ hashLast' = [ip |-> ip, before |-> resolvedSalt, env |-> env,
                        threw |-> g.threw, warned |-> g.warned,
                        hash |-> IF g.threw THEN <<>> ELSE hash]
        /\ hashSeen' = IF g.threw THEN hashSeen
                       ELSE MapSet(hashSeen, ip,
                                   (IF MapHas(hashSeen, ip) THEN hashSeen[ip] ELSE {})
                                   \cup {hash})
        /\ UNCHANGED <<now, ticks, rlVars, dbVars, reqVars, adapterLast, mwVars, env>>

\* the environment the process runs in
SetEnv(salt, nodeEnv) ==
    /\ nodeEnv = env.NODE_ENV \/ hashLast = NoHash
    /\ env' = [IP_HASH_SALT |-> salt, NODE_ENV |-> nodeEnv]
    /\ UNCHANGED <<now, ticks, rlVars, dbVars, reqVars, adapterLast, mwVars,
                   resolvedSalt, hashLast, hashSeen>>

NextSalt ==
    \/ \E ip \in {<<" ", "A", "1">>, <<"a", "1", " ">>, <<"a", "1">>, <<"b", "2">>} :
           SaltedHashIP(ip)
    \/ \E salt \in {<<"undefined">>, <<>>, <<"s1">>, <<"s2">>},
          nodeEnv \in {"development", "production"} :
           SetEnv(salt, nodeEnv)

SpecSalt == InitAuth /\ [][NextSalt]_vars

(***************************************************************************)
(* The route middleware: any sequence of page requests, with or without a  *)
(* session token, under any environment.                                   *)
(***************************************************************************)
PROTECTED_ROUTES == {<<"dashboard">>}

AUTH_ROUTES == {<<>>, <<"login">>, <<"register">>, <<"forgot-password">>,
                <<"reset-password">>, <<"verify-email">>}

\* pathname.startsWith(`${route}/`)
StartsWithRoute(pathname, route) ==
    /\ Len(pathname) > Len(route)
    /\ SubSeq(pathname, 1, Len(route)) = route

\* a protected route matched by its exact path only
IsProtectedRouteExact(pathname) == pathname \in PROTECTED_ROUTES

IsProtectedRoute(pathname) ==
    \E route \in PROTECTED_ROUTES :
        pathname = route \/ StartsWithRoute(pathname, route)

\* every auth route matched as a prefix
IsAuthRoutePrefix(pathname) ==
    \E route \in AUTH_ROUTES : pathname = route \/ StartsWithRoute(pathname, route)

IsAuthRoute(pathname) ==
    \E route \in AUTH_ROUTES :
        IF route = <<"verify-email">>
        THEN pathname = route \/ StartsWithRoute(pathname, route)
        ELSE pathname = route

\* validateSecret() throws
SecretMissing(validated, secret, production) ==
    ~validated /\ ~secret /\ production

\* middleware(request); hops is the number of redirects that led to the request
Middleware(pathname, isAuthenticated, secret, production, hops) ==
    LET call == [NoGate EXCEPT !.pathname = pathname, !.hops = hops,
                               !.isAuthenticated = isAuthenticated,
                               !.secret = secret, !.production = production]
    IN  /\ IF SecretMissing(secretValidated, secret, production)
           THEN /\ gateLast' = [call EXCEPT !.decision = "throw"]
                /\ UNCHANGED secretValidated
           ELSE /\ secretValidated' = TRUE
                /\ gateLast' =
                       IF IsProtectedRoute(pathname) /\ ~isAuthenticated
                       THEN [call EXCEPT !.decision = "redirect",
                                         !.location = <<"login">>,
                                         !.callbackUrl = pathname]
                       ELSE IF IsAuthRoute(pathname) /\ isAuthenticated
                       THEN [call EXCEPT !.decision = "redirect",
                                         !.location = <<"dashboard">>]
                       ELSE [call EXCEPT !.decision = "next"]
        /\ UNCHANGED <<now, ticks, rlVars, dbVars, reqVars, adapterLast, saltVars>>

Segments == {"dashboard", "login", "register", "forgot-password",
             "reset-password", "verify-email", "settings", ""}

RECURSIVE PathsOfLen(_)
PathsOfLen(n) ==
    IF n = 0 THEN {<<>>}
    ELSE {Append(p, seg) : p \in PathsOfLen(n - 1), seg \in Segments}

Pathnames == UNION {PathsOfLen(n) : n \in 0..MaxPathLen}

\* the client follows NextResponse.redirect: it asks for the Location with the
\* session it has
FollowRedirect ==
    /\ gateLast.decision = "redirect"
    /\ gateLast.hops < MaxHops
    /\ Middleware(gateLast.location, gateLast.isAuthenticated, gateLast.secret,
                  gateLast.production, gateLast.hops + 1)

NextMiddleware ==
    \/ \E pathname \in Pathnames, isAuthenticated \in BOOLEAN,
          secret \in BOOLEAN, production \in BOOLEAN :
           Middleware(pathname, isAuthenticated, secret, production, 0)
    \/ FollowRedirect

SpecMiddleware == InitAuth /\ [][NextMiddleware]_vars

(***************************************************************************)
(* Logins of one client, within one 15-minute window and across its end.   *)
(***************************************************************************)
AttemptDeltas == {1, 900 * 1000, 900 * 1000 + 1}

NextAttempts ==
    \/ \E d \in AttemptDeltas : Tick(d, AuthMaxTicks)
    \/ \E email \in AuthEmails, password \in {Password1, Password4, <<>>} :
           LoginAttempt(email, password)

SpecAttempts == InitAuth /\ [][NextAttempts]_vars

(***************************************************************************)
(* The rate-limited routes served one request at a time, with enough       *)
(* requests to exhaust every policy, inside one window and across its end. *)
(***************************************************************************)
GateDeltas == {3600 * 1000, 3600 * 1000 + 1}

\* no request is in flight
Alone == \A q \in Slots : Free(q)

NextGate ==
    \/ \E d \in GateDeltas : Tick(d, AuthMaxTicks)
    \/ \E email \in {LoginEmail, <<>>} :
           Quota(GateMaxReqs) /\ Alone /\ RegisterReceive(1, email, Password1)
    \/ RegisterExists(1)
    \/ RegisterCreate(1)
    \/ \E sent \in BOOLEAN : RegisterSend(1, sent)
    \/ \E email \in AuthEmails \cup {<<>>} :
           Quota(GateMaxReqs) /\ Alone /\ ForgotReceive(1, email)
    \/ ForgotFind(1)
    \/ ForgotSet(1)
    \/ \E sent \in BOOLEAN : ForgotSend(1, sent)
    \/ \E email \in AuthEmails \cup {<<>>} :
           Quota(GateMaxReqs) /\ Alone /\ ResendReceive(1, email)
    \/ ResendFind(1)
    \/ ResendSet(1)
    \/ \E sent \in BOOLEAN : ResendSend(1, sent)

SpecGate == InitAuth /\ [][NextGate]_vars

(***************************************************************************)
(* Claims about the route handlers (SpecAuth).                             *)
(***************************************************************************)

\* C2: under any interleaving of Register requests no two user records hold
\* the same normalized email.
C2_UniqueEmail ==
    \A u, v \in DOMAIN users : users[u].email = users[v].email => u = v

\* C4: once a confirmation has succeeded with token T, T is in neither lookup
\* index, and every confirmation that looks T up afterwards is answered 400
\* INVALID_VERIFICATION_TOKEN (verify-email) or INVALID_RESET_TOKEN
\* (reset-password).
C4_ConsumedTokenInvalid ==
    /\ \A t \in consumed :
           /\ ~MapHas(verificationTokenIndex, t)
           /\ ~MapHas(passwordResetTokenIndex, t)
    /\ \A r \in Slots : ~reqs[r].afterConsumed
    /\ lastDone.afterConsumed =>
           /\ lastDone.status = 400
           /\ lastDone.code = IF lastDone.kind = "verify"
                              THEN "INVALID_VERIFICATION_TOKEN"
                              ELSE "INVALID_RESET_TOKEN"

\* a second reset-password with a token that has already changed the password
C4_Witness ==
    /\ lastDone.kind = "reset"
    /\ lastDone.afterConsumed
    /\ lastDone.token \in consumed
    /\ lastDone.code = "INVALID_RESET_TOKEN"

\* C5: a reset token that a newer reset token of the same user has replaced is
\* not in the index, and a reset-password that looks it up after the newer one
\* was issued is answered 400 INVALID_RESET_TOKEN; a reset-password with the
\* live token, checked before its expiry, is answered 200.
C5_SupersededTokenInvalid ==
    /\ \A t \in DOMAIN issued :
           (issued[t].purpose = "reset" /\ Latest(t) # t) =>
               ~MapHas(passwordResetTokenIndex, t)
    /\ \A r \in Slots : reqs[r].kind = "reset" => ~reqs[r].afterSuperseded
    /\ (lastDone.kind = "reset" /\ lastDone.afterSuperseded) =>
           (lastDone.status = 400 /\ lastDone.code = "INVALID_RESET_TOKEN")
    /\ (lastDone.kind = "reset" /\ lastDone.wasLive /\ lastDone.checkedAt # NoDate
        /\ lastDone.checkedAt < lastDone.expiresAt) =>
           (lastDone.status = 200 /\ lastDone.code = "OK")

\* the old token is refused while the new one is the user's reset token
C5_Witness ==
    /\ lastDone.kind = "reset"
    /\ lastDone.afterSuperseded
    /\ lastDone.code = "INVALID_RESET_TOKEN"
    /\ MapHas(passwordResetTokenIndex, Latest(lastDone.token))

\* C6: a confirmation whose expiry test runs at now >= expiresAt is answered
\* with the expired-token error, now = expiresAt included, and one of a live
\* token with now < expiresAt succeeds.
C6_ExpiryBoundary ==
    lastDone.checkedAt # NoDate =>
        /\ lastDone.checkedAt >= lastDone.expiresAt =>
               lastDone.code = IF lastDone.kind = "verify"
                               THEN "VERIFICATION_TOKEN_EXPIRED"
                               ELSE "RESET_TOKEN_EXPIRED"
        /\ (lastDone.checkedAt < lastDone.expiresAt /\ lastDone.wasLive) =>
               lastDone.status \in {200, 307}

C8_LastWriterWins ==
    /\ \A t \in DOMAIN verificationTokenIndex :
           /\ MapHas(issued, t)
           /\ issued[t] = [userId |-> verificationTokenIndex[t], purpose |-> "verify"]
           /\ Latest(t) = t
    /\ \A t \in DOMAIN passwordResetTokenIndex :
           /\ MapHas(issued, t)
           /\ issued[t] = [userId |-> passwordResetTokenIndex[t], purpose |-> "reset"]
           /\ Latest(t) = t
    /\ \A t \in DOMAIN issued :
           (Latest(t) = t /\ NoneConsumed(t)) =>
               IF issued[t].purpose = "verify"
               THEN /\ MapHas(verificationTokenIndex, t)
                    /\ verificationTokenIndex[t] = issued[t].userId
               ELSE /\ MapHas(passwordResetTokenIndex, t)
                    /\ passwordResetTokenIndex[t] = issued[t].userId

\* two requests of one kind for one user, both past their write of a token
C8_Witness ==
    /\ reqs[1].kind \in {"forgot", "resend"}
    /\ reqs[2].kind = reqs[1].kind
    /\ reqs[1].pc = "send" /\ reqs[2].pc = "send"
    /\ reqs[1].userId = reqs[2].userId
    /\ reqs[1].newToken # reqs[2].newToken

(***************************************************************************)
(* Claims about login and the routes (SpecLogin).                          *)
(***************************************************************************)

C13_ResetChangesPassword ==
    /\ \A u \in DOMAIN users :
           /\ MapHas(credentials, u)
           /\ users[u].passwordHash = Hash(credentials[u].password)
    /\ (/\ lastDone.kind = "login" /\ lastDone.wellFormed
        /\ lastDone.afterReset /\ lastDone.verified) =>
           IF lastDone.pwMatch
           THEN lastDone.status = 200 /\ lastDone.code = "OK"
           ELSE lastDone.status = 401 /\ lastDone.code = "Invalid email or password"

\* the old password refused after the password was reset to Password4
C13_Witness ==
    /\ lastDone.kind = "login"
    /\ lastDone.afterReset /\ lastDone.verified
    /\ ~lastDone.pwMatch
    /\ lastDone.code = "Invalid email or password"
    /\ credentials[AccountOf(lastDone.email)].password = Password4

\* C14: a reset-password request is accepted only with a password that
\* satisfies the registration policy (8 to 128 characters, an uppercase
\* letter, a lowercase letter and a digit); a request whose password breaks
\* a rule is answered 400 VALIDATION_ERROR, so every password that a record
\* was ever given satisfies the policy.
C14_ResetEnforcesPolicy ==
    /\ (lastDone.kind = "reset" /\ ~lastDone.strong) =>
           (lastDone.status \in {400, 429} /\ lastDone.code # "OK")
    /\ \A u \in DOMAIN credentials : PasswordPolicy(credentials[u].password)

\* C15: verification is one-way: in every step of register, login, resend,
\* verify-email, forgot-password and reset-password, a user record whose
\* emailVerified is set is still in the store afterwards with emailVerified
\* set (a later confirmation of a token issued to the same record may move
\* the date, never clear it).
C15_VerifiedStaysVerified ==
    [][\A u \in DOMAIN users :
           users[u].emailVerified # NoDate =>
               /\ u \in DOMAIN users'
               /\ users'[u].emailVerified # NoDate]_vars

C15_Witness ==
    \E u \in DOMAIN users :
        /\ users[u].emailVerified # NoDate
        /\ MapHas(credentials, u) /\ credentials[u].password = Password4
        /\ users[u].passwordHash = Hash(Password4)
        /\ lastDone.kind = "login" /\ lastDone.code = "OK"

\* C16: login does not tell a missing account from a wrong password: a
\* login with a well-formed email and a non-empty password is answered 401
\* "Invalid email or password" both when no record has the email and when
\* the record exists and the password is not the one last accepted for it.
C16_SameErrorForMissingAndMismatch ==
    (/\ lastDone.kind = "login"
     /\ lastDone.wellFormed
     /\ (~lastDone.known \/ ~lastDone.pwMatch)) =>
        /\ lastDone.status = 401
        /\ lastDone.code = "Invalid email or password"

C16_Witness ==
    /\ lastDone.kind = "login"
    /\ ~lastDone.known
    /\ lastDone.code = "Invalid email or password"
    /\ \E u \in DOMAIN users : users[u].emailVerified # NoDate
    /\ \A u \in DOMAIN users : ~SameEmail(users[u].email, lastDone.email)

(***************************************************************************)
(* Claims about register and resend (SpecAuth).                            *)
(***************************************************************************)
\* C17: a register request that passed validation and the rate limit, and
\* whose email equals that of an earlier registration up to letter case when
\* emailExists is asked, is answered 409 EMAIL_EXISTS and creates neither a
\* record nor a token; one whose email is new at that point is answered 201
\* and its record is stored under the lower-cased email.
C17_DuplicateEmailRefused ==
    (lastDone.kind = "register" /\ lastDone.status \notin {400, 429}) =>
        IF lastDone.known
        THEN /\ lastDone.status = 409 /\ lastDone.code = "EMAIL_EXISTS"
             /\ lastDone.userId = 0 /\ lastDone.newToken = NoToken
        ELSE /\ lastDone.status = 201
             /\ MapHas(users, lastDone.userId)
             /\ users[lastDone.userId].email = ToLowerCase(lastDone.email)
             /\ SameEmail(users[lastDone.userId].email, lastDone.email)

\* the second registration of an email refused, the store still holding the
\* one record
C17_Witness ==
    /\ lastDone.kind = "register" /\ lastDone.status = 409 /\ lastDone.known
    /\ DOMAIN users = {1}
    /\ SameEmail(users[1].email, lastDone.email)
    /\ DOMAIN credentials = {1}

\* C18: a resend for an account that is already verified when the route
\* looks it up is answered 200 success and does nothing else: the request
\* sets no token and sends no email.
C18_ResendVerifiedIsNoop ==
    (lastDone.kind = "resend" /\ lastDone.verified) =>
        /\ lastDone.status = 200 /\ lastDone.code = "OK"
        /\ lastDone.newToken = NoToken
        /\ lastDone.userId = 0
        /\ lastDone.sent = "none"

\* the resend answered for a verified account whose record holds no token
C18_Witness ==
    /\ lastDone.kind = "resend" /\ lastDone.verified /\ lastDone.status = 200
    /\ users[AccountOf(lastDone.email)].emailVerified # NoDate
    /\ users[AccountOf(lastDone.email)].emailVerificationToken = NoToken
    /\ verificationTokenIndex = EmptyMap

\* C19: a register request whose verification email could not be sent is
\* still answered 201, and the user it created is in the store; its
\* verification token resolves to it in the index for as long as the token
\* has not been confirmed or replaced by a newer one.
C19_RegisterSurvivesDispatchFailure ==
    (lastDone.kind = "register" /\ lastDone.sent = "failed") =>
        /\ lastDone.status = 201
        /\ MapHas(users, lastDone.userId)
        /\ users[lastDone.userId].email = lastDone.email
        /\ (Latest(lastDone.newToken) = lastDone.newToken
              /\ NoneConsumed(lastDone.newToken)) =>
               /\ MapHas(verificationTokenIndex, lastDone.newToken)
               /\ verificationTokenIndex[lastDone.newToken] = lastDone.userId
               /\ users[lastDone.userId].emailVerificationToken = lastDone.newToken

\* the registration answered 201 after the failed dispatch, its token in the
\* index
C19_Witness ==
    /\ lastDone.kind = "register" /\ lastDone.sent = "failed"
    /\ lastDone.status = 201
    /\ MapHas(users, lastDone.userId)
    /\ MapHas(verificationTokenIndex, lastDone.newToken)
    /\ verificationTokenIndex[lastDone.newToken] = lastDone.userId

\* C20: a resend or forgot-password request whose email could not be sent
\* is answered 500 INTERNAL_ERROR and has changed nothing: the token it
\* generated is in neither token index and in no user record, so the token
\* issued before it is still the one in force.
C20_DispatchFailureLeavesNoToken ==
    (lastDone.kind \in {"forgot", "resend"} /\ lastDone.sent = "failed") =>
        /\ lastDone.status = 500 /\ lastDone.code = "INTERNAL_ERROR"
        /\ ~MapHas(verificationTokenIndex, lastDone.newToken)
        /\ ~MapHas(passwordResetTokenIndex, lastDone.newToken)
        /\ \A u \in DOMAIN users :
               /\ users[u].emailVerificationToken # lastDone.newToken
               /\ users[u].passwordResetToken # lastDone.newToken

(***************************************************************************)
(* Claims about the rate limits of the routes (SpecGate, SpecAttempts).    *)
(***************************************************************************)
\* C21: the limiter comes first in register, resend and forgot-password: a
\* request that is over its endpoint's limit in the current window is
\* answered 429 whatever its input, and a request answered 429 has looked up
\* no account, issued no token and sent no email.
C21_RefusedRequestDoesNothing ==
    (lastDone.kind \in {"register", "forgot", "resend"}) =>
        /\ lastDone.nth > (IF lastDone.kind = "resend" THEN 3 ELSE 5) =>
               lastDone.status = 429
        /\ lastDone.status = 429 =>
               /\ lastDone.code = "RATE_LIMITED"
               /\ lastDone.userId = 0 /\ lastDone.newToken = NoToken
               /\ lastDone.sent = "none"
               /\ ~lastDone.known /\ ~lastDone.verified

\* a resend refused for an account that exists and still waits for its
\* verification, nothing issued since its registration
C21_Witness ==
    /\ lastDone.kind = "resend" /\ lastDone.status = 429
    /\ lastDone.email = LoginEmail
    /\ AccountOf(lastDone.email) # 0
    /\ users[AccountOf(lastDone.email)].emailVerified = NoDate
    /\ nextToken = 2

\* C23: every token-issuing endpoint has its own fixed policy per client:
\* within one window of 3600 s, register answers the first 5 requests and
\* forgot-password the first 5, resend the first 3, and exactly the requests
\* after those are answered 429 RATE_LIMITED; the counter of one endpoint
\* takes no request of another.
C23_PolicyPerEndpoint ==
    /\ (lastDone.kind \in {"register", "forgot"}) =>
           (lastDone.status = 429 <=> lastDone.nth > 5)
    /\ lastDone.kind = "resend" =>
           (lastDone.status = 429 <=> lastDone.nth > 3)
    /\ lastDone.status = 429 => lastDone.code = "RATE_LIMITED"
    /\ \A k \in DOMAIN rateLimitStore :
           /\ MapHas(rlWindow, k)
           /\ rateLimitStore[k].count <=
                  (IF k = RateLimitKey(HashIP(ClientIp), <<"verify-email">>)
                   THEN 3 ELSE 5)
           /\ rateLimitStore[k].resetAt = rlWindow[k].end
           /\ rateLimitStore[k].resetAt - 3600 * 1000 >= 0
           /\ rateLimitStore[k].resetAt - 3600 * 1000 <= now

\* the sixth register of a window refused while resend, used three times,
\* is full as well and forgot-password is not
C23_Witness ==
    /\ lastDone.kind = "register" /\ lastDone.nth = 6 /\ lastDone.status = 429
    /\ MapHas(rlWindow, RateLimitKey(HashIP(ClientIp), <<"verify-email">>))
    /\ rlWindow[RateLimitKey(HashIP(ClientIp), <<"verify-email">>)].calls = 1
    /\ ~MapHas(rlWindow, RateLimitKey(HashIP(ClientIp), <<"forgot-password">>))

\* C22: logins are limited by the login policy: a login that is past the
\* 10th of its client's 15-minute window is refused before the credentials
\* are looked at, so its answer is none of those authorize derives from the
\* account.
C22_EleventhLoginRefused ==
    (lastDone.kind = "login" /\ lastDone.nth > 10) =>
        /\ lastDone.status = 429
        /\ lastDone.code \notin {"OK", "EMAIL_NOT_VERIFIED",
                                 "Invalid email or password"}

(***************************************************************************)
(* Claims about the route middleware (SpecMiddleware).                     *)
(***************************************************************************)
\* C24: the decision of the middleware depends on the path and on whether
\* there is a session only: /dashboard and every path under it without a
\* session is redirected to /login with the path as callbackUrl; /, /login,
\* /register, /forgot-password, /reset-password, /verify-email and every
\* path under /verify-email with a session is redirected to /dashboard;
\* every other request is let through; and no request for a protected path
\* without a session is ever let through.
C24_GateDecision ==
    LET p         == gateLast.pathname
        protected == Len(p) >= 1 /\ p[1] = "dashboard"
        authOnly  == \/ p = <<>>
                     \/ Len(p) = 1 /\ p[1] \in {"login", "register", "forgot-password",
                                                "reset-password"}
                     \/ Len(p) >= 1 /\ p[1] = "verify-email"
    IN  /\ gateLast.decision \notin {"none", "throw"} =>
               IF protected /\ ~gateLast.isAuthenticated
               THEN /\ gateLast.decision = "redirect"
                    /\ gateLast.location = <<"login">>
                    /\ gateLast.callbackUrl = p
               ELSE IF authOnly /\ gateLast.isAuthenticated
               THEN /\ gateLast.decision = "redirect"
                    /\ gateLast.location = <<"dashboard">>
                    /\ gateLast.callbackUrl = NoPath
               ELSE gateLast.decision = "next"
        /\ (gateLast.decision # "none" /\ protected /\ ~gateLast.isAuthenticated) =>
               gateLast.decision # "next"

\* /dashboard/settings asked for without a session
C24_Witness ==
    /\ gateLast.pathname = <<"dashboard", "settings">>
    /\ ~gateLast.isAuthenticated
    /\ gateLast.decision = "redirect"
    /\ gateLast.location = <<"login">>
    /\ gateLast.callbackUrl = <<"dashboard", "settings">>

(***************************************************************************)
(* More claims about login and the routes (SpecLogin).                     *)
(***************************************************************************)
\* C25: with the memory adapter and an email adapter that always delivers
\* (the console adapter), an account is verified by its registration: the
\* user of a register answered 201 has emailVerified set, and a login with
\* the email and the password of a registered account succeeds although no
\* verification token was confirmed.
C25_DemoAutoVerified ==
    /\ (lastDone.kind = "register" /\ lastDone.status = 201
            /\ lastDone.sent = "ok") =>
           users[lastDone.userId].emailVerified # NoDate
    /\ (lastDone.kind = "login" /\ lastDone.known /\ lastDone.pwMatch) =>
           (lastDone.status = 200 /\ lastDone.code = "OK")

\* C26: a reset token authorizes at most one password change, whatever the
\* interleaving: a reset-password request answered 200 is the first one to
\* succeed with its token, so of two requests that carry the same token at
\* most one succeeds.
C26_OneChangePerToken ==
    (lastDone.kind = "reset" /\ lastDone.status = 200) => ~lastDone.reused

\* C27: a confirmation clears the token it was given and no other: when a
\* token has been confirmed, the newest token of the same user and purpose,
\* if it is another one and has not been confirmed itself, is still in its
\* index and resolves to the user.
C27_ConsumeClearsOnlyItsToken ==
    \A t \in consumed :
        LET t2    == Latest(t)
            index == IF issued[t].purpose = "verify" THEN verificationTokenIndex
                     ELSE passwordResetTokenIndex
        IN  (t2 # t /\ t2 \notin consumed) =>
                (MapHas(index, t2) /\ index[t2] = issued[t].userId)

(***************************************************************************)
(* Claims about failed confirmations and the indexes (SpecAuth).           *)
(***************************************************************************)
\* C28: a failed confirmation changes nothing: the step that answers a
\* verify-email or reset-password request with the invalid-token or the
\* expired-token error leaves the user table and the three indexes as they
\* were; the newest token of a user and purpose, as long as none of them has
\* been confirmed, is in its index whether expired or not; and a
\* confirmation that finds such a token after its expiry is answered with
\* the expired-token error, not the invalid-token one.
C28_FailedConfirmationChangesNothing ==
    /\ [][(/\ lastDone' # lastDone
           /\ lastDone'.kind \in {"verify", "reset"}
           /\ lastDone'.code \in {"INVALID_VERIFICATION_TOKEN", "INVALID_RESET_TOKEN",
                                   "VERIFICATION_TOKEN_EXPIRED", "RESET_TOKEN_EXPIRED"})
             => UNCHANGED <<users, emailIndex, verificationTokenIndex,
                            passwordResetTokenIndex>>]_vars
    /\ [](\A t \in DOMAIN issued :
              (Latest(t) = t /\ NoneConsumed(t)) =>
                  IF issued[t].purpose = "verify"
                  THEN MapHas(verificationTokenIndex, t)
                  ELSE MapHas(passwordResetTokenIndex, t))
    /\ []((/\ lastDone.kind \in {"verify", "reset"}
           /\ lastDone.wasLive
           /\ lastDone.checkedAt # NoDate
           /\ lastDone.checkedAt > lastDone.expiresAt) =>
              lastDone.code = IF lastDone.kind = "verify"
                              THEN "VERIFICATION_TOKEN_EXPIRED"
                              ELSE "RESET_TOKEN_EXPIRED")

\* a verification token refused as expired and still in the index
C28_Witness ==
    /\ lastDone.kind = "verify"
    /\ lastDone.code = "VERIFICATION_TOKEN_EXPIRED"
    /\ now > lastDone.expiresAt
    /\ MapHas(verificationTokenIndex, lastDone.token)
    /\ users[verificationTokenIndex[lastDone.token]].emailVerified = NoDate
    /\ started >= 2

\* C29: under interleaved resend and verify-email requests, a user whose
\* emailVerified is set holds no verification token and no entry of the
\* verification index resolves to the user, so a verified account cannot be
\* confirmed again.
C29_VerifiedHasNoToken ==
    \A u \in DOMAIN users :
        users[u].emailVerified # NoDate =>
            /\ users[u].emailVerificationToken = NoToken
            /\ \A t \in DOMAIN verificationTokenIndex : verificationTokenIndex[t] # u

(***************************************************************************)
(* More claims about the memory adapter (SpecAdapter).                     *)
(***************************************************************************)
\* C30: the email index is consistent with the records: every user record
\* is found under its email, and every entry of the index points to an
\* existing record, so that no createUser or updateUser makes another
\* user's record unreachable by email.
C30_EmailIndexConsistent ==
    /\ \A u \in DOMAIN users :
           /\ MapHas(emailIndex, users[u].email)
           /\ emailIndex[users[u].email] = u
    /\ \A e \in DOMAIN emailIndex : MapHas(users, emailIndex[e])

(***************************************************************************)
(* Further claims about the rate limiter.                                  *)
(***************************************************************************)

\* C31: a check made inside the active window of its key (the stored resetAt is
\* not before now) leaves the entry's resetAt unchanged and returns it; when
\* the check is denied the entry is unchanged altogether, when it is allowed
\* only the count moves, by one.  With limit >= 1 the stored count is always
\* within 1..limit and the remaining returned within 0..limit-1.
C31_ActiveWindowFrame ==
    /\ [][now' = now =>
            LET k   == rlLast'.key
                res == rlLast'.result
            IN  (MapHas(rateLimitStore, k) /\ ~(rateLimitStore[k].resetAt < now)) =>
                    /\ MapHas(rateLimitStore', k)
                    /\ rateLimitStore'[k].resetAt = rateLimitStore[k].resetAt
                    /\ res.resetAt = rateLimitStore[k].resetAt
                    /\ ~res.allowed => rateLimitStore'[k] = rateLimitStore[k]
                    /\ res.allowed =>
                           rateLimitStore'[k].count = rateLimitStore[k].count + 1]_vars
    /\ [](\A k \in DOMAIN rateLimitStore :
              /\ rateLimitStore[k].count >= 1
              /\ rateLimitStore[k].count <= rlWindow[k].limit)
    /\ [](rlLast.nth > 0 =>
              /\ rlLast.result.remaining >= 0
              /\ rlLast.result.remaining <= rlLast.limit - 1)

\* a key with limit 2, allowed twice, then denied later in the same window
C31_Witness ==
    /\ rlLast.limit = 2
    /\ ~rlLast.result.allowed
    /\ rlLast.at > rlLast.result.resetAt - rlLast.windowSeconds * 1000
    /\ rlLast.at <= rlLast.result.resetAt
    /\ rateLimitStore[rlLast.key] = [count |-> 2, resetAt |-> rlLast.result.resetAt]

\* C32: lastCleanupTime moves only in a checkRateLimit call made at least
\* CLEANUP_INTERVAL_MS after the last sweep, and then to now; an entry leaves
\* the store only in such a call and only if its resetAt is before now; the
\* sweep of such a call removes every entry whose resetAt is before now (the
\* entry of the key being checked is created anew) and keeps every entry whose
\* window is still active.
C32_LazySweep ==
    [][LET swept == lastCleanupTime' # lastCleanupTime
           due   == now - lastCleanupTime >= CLEANUP_INTERVAL_MS
       IN  /\ swept =>
                  /\ now' = now
                  /\ rlLast'.at = now
                  /\ due
                  /\ lastCleanupTime' = now
           /\ \A k \in DOMAIN rateLimitStore :
                  /\ ~MapHas(rateLimitStore', k) =>
                         /\ swept
                         /\ rateLimitStore[k].resetAt < now
                  /\ (swept /\ rateLimitStore[k].resetAt < now) =>
                         \/ ~MapHas(rateLimitStore', k)
                         \/ /\ k = rlLast'.key
                            /\ rateLimitStore'[k].count = 1
                            /\ rateLimitStore'[k].resetAt > now
                  /\ ~(rateLimitStore[k].resetAt < now) =>
                         /\ MapHas(rateLimitStore', k)
                         /\ rateLimitStore'[k].resetAt = rateLimitStore[k].resetAt]_vars

\* a sweep has just run, in the second call of a window opened earlier: it
\* removed the expired entry of the other key and kept the active entry of the
\* key being checked, which was counted once more
C32_Witness ==
    /\ lastCleanupTime = now
    /\ now > 0
    /\ rlLast.at = now
    /\ rlLast.nth = 2
    /\ rlLast.result.allowed
    /\ rlLast.result.resetAt - rlLast.windowSeconds * 1000 < now
    /\ \E k \in DOMAIN rlWindow : ~MapHas(rateLimitStore, k) /\ rlWindow[k].end < now

\* C33: the lazy sweep is not observable: every checkRateLimit call returns the
\* same allowed, remaining and resetAt as the same call made on a limiter that
\* received the same calls at the same times and never deleted an entry.
C33_SweepTransparent ==
    rlLast.nth > 0 => rlLast.result = rlLast.reference

\* a key whose expired entry the sweep had deleted is checked again, and another
\* key is still missing from the store the reference limiter kept
C33_Witness ==
    /\ rlLast.swept
    /\ rlLast.at = now
    /\ rlLast.result.allowed
    /\ rlLast.result = rlLast.reference
    /\ \E k \in DOMAIN unsweptStore : ~MapHas(rateLimitStore, k)

\* C34: a checkRateLimit call for one (identifier, endpoint) pair changes the
\* result of no later check for a different pair: for every other pair and
\* every time from now on, the check would answer after the call what it would
\* have answered before it.
C34_KeysIndependent ==
    [][\A identifier \in Identifiers, endpoint \in KeyEndpoints,
         t \in {now'} \cup {now' + d : d \in RLDeltas} :
           <<identifier, endpoint>> # <<rlLast'.identifier, rlLast'.endpoint>> =>
               CheckRateLimit(rateLimitStore', lastCleanupTime', t,
                              identifier, endpoint, policy[endpoint]).result
               = CheckRateLimit(rateLimitStore, lastCleanupTime, t,
                                identifier, endpoint, policy[endpoint]).result]_vars

\* client h1 is refused on endpoint e1; the first call of client h2 on e1 and
\* the calls of h1 on e2 are allowed all the same
C34_Witness ==
    LET k11 == <<"h1", ":", "e1">>
        k21 == <<"h2", ":", "e1">>
        k12 == <<"h1", ":", "e2">>
    IN  /\ MapHas(rlWindow, k11) /\ rlWindow[k11].calls > rlWindow[k11].limit
        /\ now <= rlWindow[k11].end
        /\ MapHas(rateLimitStore, k12) /\ rateLimitStore[k12].count = MaxLimit
        /\ rlLast.key = k21
        /\ rlLast.at = now
        /\ rlLast.nth = 1
        /\ rlLast.result.allowed

(***************************************************************************)
(* Further claims about the routes.                                        *)
(***************************************************************************)

\* C35: a token issued for email verification is never accepted by
\* reset-password, and a token issued for password reset is never accepted by
\* GET verify-email: such a request never gets past the lookup, its answer is
\* the invalid-token error of the endpoint (a reset request that fails the
\* body validation or the rate limit is refused before the lookup), and none
\* of its steps changes the user table or an index.
C35_TokenPurposesIsolated ==
    /\ [](\A r \in Slots :
              (/\ MapHas(issued, reqs[r].token)
               /\ \/ reqs[r].kind = "reset" /\ issued[reqs[r].token].purpose = "verify"
                  \/ reqs[r].kind = "verify" /\ issued[reqs[r].token].purpose = "reset")
                  => reqs[r].pc \notin {"apply", "check", "update"})
    /\ []((/\ lastDone.kind = "verify"
           /\ MapHas(issued, lastDone.token)
           /\ issued[lastDone.token].purpose = "reset") =>
              /\ lastDone.status = 400
              /\ lastDone.code = "INVALID_VERIFICATION_TOKEN")
    /\ []((/\ lastDone.kind = "reset"
           /\ MapHas(issued, lastDone.token)
           /\ issued[lastDone.token].purpose = "verify") =>
              /\ lastDone.status \in {400, 429}
              /\ lastDone.code \in {"INVALID_RESET_TOKEN", "VALIDATION_ERROR",
                                    "RATE_LIMITED"}
              /\ (lastDone.strong /\ lastDone.status # 429) =>
                     lastDone.code = "INVALID_RESET_TOKEN")
    /\ [][\A r \in Slots :
              LET req == IF reqs[r].kind = "none" THEN reqs'[r] ELSE reqs[r]
              IN  (/\ reqs'[r] # reqs[r]
                   /\ MapHas(issued, req.token)
                   /\ \/ req.kind = "reset" /\ issued[req.token].purpose = "verify"
                      \/ req.kind = "verify" /\ issued[req.token].purpose = "reset") =>
                      UNCHANGED <<users, emailIndex, verificationTokenIndex,
                                  passwordResetTokenIndex>>]_vars

\* the live verification token of a user was presented to reset-password with
\* a strong password and refused, and the user's password and token stand
C35_Witness ==
    /\ lastDone.kind = "reset"
    /\ lastDone.strong
    /\ MapHas(issued, lastDone.token)
    /\ issued[lastDone.token].purpose = "verify"
    /\ MapHas(verificationTokenIndex, lastDone.token)
    /\ lastDone.code = "INVALID_RESET_TOKEN"
    /\ \E u \in DOMAIN users :
           /\ users[u].emailVerificationToken = lastDone.token
           /\ users[u].passwordHash = Hash(Password1)

\* C36: EMAIL_NOT_VERIFIED is only ever the answer to a login that presented
\* the password last accepted for an existing, unconfirmed account; a
\* well-formed login with another password for an unconfirmed account is
\* answered 401 "Invalid email or password", the answer a confirmed or a
\* missing account gets.
C36_NotVerifiedNeedsPassword ==
    lastDone.kind = "login" =>
        /\ lastDone.code = "EMAIL_NOT_VERIFIED" =>
               /\ lastDone.known
               /\ lastDone.pwMatch
               /\ ~lastDone.verified
        /\ (/\ lastDone.wellFormed /\ lastDone.known
            /\ ~lastDone.verified /\ ~lastDone.pwMatch) =>
               /\ lastDone.status = 401
               /\ lastDone.code = "Invalid email or password"

\* a login with a wrong password for the registered, still unverified account
C36_Witness ==
    /\ lastDone.kind = "login"
    /\ lastDone.wellFormed
    /\ lastDone.known
    /\ ~lastDone.pwMatch
    /\ ~lastDone.verified
    /\ lastDone.code = "Invalid email or password"
    /\ \E u \in DOMAIN users :
           /\ SameEmail(users[u].email, lastDone.email)
           /\ users[u].emailVerified = NoDate

\* C37: a confirmation writes only its own fields.  The step in which
\* reset-password succeeds leaves, in the record it updates, the email,
\* emailVerified and the verification token with its expiry as they were, and
\* leaves the email and verification indexes alone; the step in which GET
\* verify-email succeeds leaves the password hash, the reset token with its
\* expiry and the reset index alone.  Neither adds, removes or changes the
\* record of another user.
C37_ConfirmationFrame ==
    [][\A r \in Slots :
           LET u == reqs[r].userId
               resetDone  == /\ reqs[r].kind = "reset" /\ reqs[r].pc = "update"
                             /\ reqs'[r] # reqs[r] /\ lastDone'.status = 200
               verifyDone == /\ reqs[r].kind = "verify" /\ reqs[r].pc = "apply"
                             /\ reqs'[r] # reqs[r] /\ lastDone'.status = 307
           IN  /\ (resetDone \/ verifyDone) =>
                      /\ DOMAIN users' = DOMAIN users
                      /\ u \in DOMAIN users
                      /\ \A v \in DOMAIN users \ {u} : users'[v] = users[v]
                      /\ users'[u].email = users[u].email
                      /\ emailIndex' = emailIndex
               /\ resetDone =>
                      /\ users'[u].emailVerified = users[u].emailVerified
                      /\ users'[u].emailVerificationToken
                             = users[u].emailVerificationToken
                      /\ users'[u].emailVerificationTokenExpiresAt
                             = users[u].emailVerificationTokenExpiresAt
                      /\ verificationTokenIndex' = verificationTokenIndex
               /\ verifyDone =>
                      /\ users'[u].passwordHash = users[u].passwordHash
                      /\ users'[u].passwordResetToken = users[u].passwordResetToken
                      /\ users'[u].passwordResetTokenExpiresAt
                             = users[u].passwordResetTokenExpiresAt
                      /\ passwordResetTokenIndex' = passwordResetTokenIndex]_vars

\* a reset has just succeeded for a user who is still unverified and still
\* holds a verification token, while a second user is registered
C37_Witness ==
    /\ lastDone.kind = "reset"
    /\ lastDone.status = 200
    /\ Cardinality(DOMAIN users) = 2
    /\ lastDone.userId \in DOMAIN users
    /\ users[lastDone.userId].emailVerified = NoDate
    /\ users[lastDone.userId].emailVerificationToken # NoToken
    /\ users[lastDone.userId].passwordResetToken = NoToken
    /\ lastDone.userId \in {issued[t].userId : t \in consumed}

(***************************************************************************)
(* Further claims about the route middleware (SpecMiddleware).             *)
(***************************************************************************)

\* C38: the middleware never redirects in a loop: a request that follows a
\* redirect of the middleware with the same session is let through, so a
\* client is redirected at most once; the path it lands on is /login without
\* a session and /dashboard with one.
C38_NoRedirectLoop ==
    gateLast.hops >= 1 =>
        /\ gateLast.hops = 1
        /\ gateLast.decision = "next"
        /\ gateLast.pathname = IF gateLast.isAuthenticated THEN <<"dashboard">>
                               ELSE <<"login">>

\* the redirect to /login was followed without a session and let through
C38_Witness ==
    /\ gateLast.hops = 1
    /\ ~gateLast.isAuthenticated
    /\ gateLast.pathname = <<"login">>
    /\ gateLast.decision = "next"
    /\ secretValidated

(***************************************************************************)
(* Claims about IP hashing (SpecSalt).                                     *)
(***************************************************************************)

\* C39: a hashIP call made in production while IP_HASH_SALT is unset and no
\* salt has been resolved throws and resolves nothing, so the next call meets
\* the same test, and no hash made in production uses the fallback salt;
\* outside production such a call resolves the fallback salt, with a warning;
\* hashIP throws in no other case.  A salt once resolved never changes, so all
\* hashes of the process are made with one salt: two addresses that are equal
\* after trimming and lower-casing always get the same hash, two that are not
\* never do.
C39_SaltResolution ==
    /\ [](LET unset == hashLast.env.IP_HASH_SALT \in {<<"undefined">>, <<>>}
              first == hashLast # NoHash /\ hashLast.before = NoSalt
              prod  == hashLast.env.NODE_ENV = "production"
              same(i, j) == (i = <<"b", "2">>) <=> (j = <<"b", "2">>)
          IN  /\ hashLast.threw <=> (first /\ unset /\ prod)
              /\ hashLast.threw => resolvedSalt = NoSalt
              /\ (first /\ unset /\ ~prod) =>
                     /\ resolvedSalt = DEFAULT_SALT
                     /\ hashLast.warned
                     /\ hashLast.hash[2] = DEFAULT_SALT[1]
              /\ (first /\ ~unset) => resolvedSalt = hashLast.env.IP_HASH_SALT
              /\ env.NODE_ENV = "production" =>
                     /\ resolvedSalt # DEFAULT_SALT
                     /\ \A i \in DOMAIN hashSeen : \A h \in hashSeen[i] :
                            h[2] # DEFAULT_SALT[1]
              /\ \A i \in DOMAIN hashSeen : \A j \in DOMAIN hashSeen :
                     \A h \in hashSeen[i] : \A g \in hashSeen[j] :
                         same(i, j) <=> h = g)
    /\ [][resolvedSalt # NoSalt => resolvedSalt' = resolvedSalt]_vars

\* in production the salt s1 was resolved and IP_HASH_SALT then changed to s2;
\* a call made after the change succeeded, and two differently written forms
\* of one address have only ever got the one hash made with s1
C39_Witness ==
    /\ env.NODE_ENV = "production"
    /\ hashLast.env.NODE_ENV = "production"
    /\ resolvedSalt = <<"s1">>
    /\ env.IP_HASH_SALT = <<"s2">>
    /\ hashLast.env.IP_HASH_SALT = <<"s2">>
    /\ ~hashLast.threw
    /\ MapHas(hashSeen, <<" ", "A", "1">>)
    /\ MapHas(hashSeen, <<"a", "1", " ">>)
    /\ hashSeen[<<" ", "A", "1">>] = {<<"sha256", "s1", ":", "a", "1">>}
    /\ hashSeen[<<"a", "1", " ">>] = {<<"sha256", "s1", ":", "a", "1">>}

====
